---- MODULE Spec2Model ----
(***************************************************************************)
(* Model of the dark-factory task-graph engine: the TaskGraph store        *)
(* (load, save, mutators, readyTasks) of core/task-graph.ts, the           *)
(* recovery-state deriver of commands/task-state.ts and the worktree       *)
(* lifecycle (create, remove, merge) of core/worktree.ts.                  *)
(*                                                                         *)
(* A document is [project, tasks] with tasks a function from task ids to   *)
(* SlimTask records.  The key order of the JavaScript object is not kept:  *)
(* every accessor of the source sorts its result by id.                    *)
(***************************************************************************)
EXTENDS Integers, Sequences, FiniteSets, TLC

(***************************************************************************)
(* Bounds of the model.                                                    *)
(***************************************************************************)
NumIds == 2        \* task ids that addTask may register
MaxDeps == 2       \* longest dependencies list the inputs build
MaxAttempts == 1   \* incrementAttempts is offered while attempts < MaxAttempts
MaxClock == 1      \* Date.now() ranges over 0..MaxClock
MaxCommits == 2    \* commits the merges make at projectRoot
MaxTasks == 3      \* tasks a graph holds when add-task is given any id
MAX_SESSIONS == 2  \* the loop script's first argument

(***************************************************************************)
(* Identifiers, in ascending order of String.prototype.localeCompare.      *)
(* AbsentId is an id no input ever registers (the tests' "T999").          *)
(***************************************************************************)
IdTable == <<"T001", "T002", "T003", "T004", "T005", "T006">>
AbsentId == "T999"
\* T followed by 2^53, the first whole number whose successor is no double.
BigId == "T9007199254740992"
TaskIds == {IdTable[i] : i \in 1..NumIds}
DepIds == TaskIds \cup {AbsentId}

\* Every id of the model, ascending by code unit: the ids above, the ids
\* add-task --id may also be given and the ids nextTaskId answers for them.
IdOrder == <<"7">> \o IdTable \o <<"T007a", "T008", "T1000", BigId, AbsentId, "Tx">>

IdRank(id) == CHOOSE i \in 1..Len(IdOrder) : IdOrder[i] = id

\* Array.prototype.sort over ids: the ascending sequence of a set of ids.
RECURSIVE SortIds(_)
SortIds(S) ==
    IF S = {} THEN <<>>
    ELSE LET m == CHOOSE x \in S : \A y \in S : IdRank(x) <= IdRank(y)
         IN <<m>> \o SortIds(S \ {m})

Range(s) == {s[i] : i \in 1..Len(s)}

KnownIds == Range(IdOrder)

(***************************************************************************)
(* An id as the string it is: its characters.                              *)
(***************************************************************************)
DigitChars == <<"0", "1", "2", "3", "4", "5", "6", "7", "8", "9">>

Spelling(id) ==
    CASE id = "7" -> <<"7">>
      [] id = "T001" -> <<"T", "0", "0", "1">>
      [] id = "T002" -> <<"T", "0", "0", "2">>
      [] id = "T003" -> <<"T", "0", "0", "3">>
      [] id = "T004" -> <<"T", "0", "0", "4">>
      [] id = "T005" -> <<"T", "0", "0", "5">>
      [] id = "T006" -> <<"T", "0", "0", "6">>
      [] id = "T007a" -> <<"T", "0", "0", "7", "a">>
      [] id = "T008" -> <<"T", "0", "0", "8">>
      [] id = "T1000" -> <<"T", "1", "0", "0", "0">>
      [] id = "T999" -> <<"T", "9", "9", "9">>
      [] id = BigId -> <<"T", "9", "0", "0", "7", "1", "9", "9", "2", "5", "4", "7", "4", "0",
                         "9", "9", "2">>
      [] id = "Tx" -> <<"T", "x">>

\* The id spelled chars; "?" stands for every string that is no id of the
\* model.
Unspell(chars) ==
    IF \E id \in KnownIds : Spelling(id) = chars
    THEN CHOOSE id \in KnownIds : Spelling(id) = chars
    ELSE "?"

IsDigit(c) == c \in Range(DigitChars)

DigitValue(c) == (CHOOSE i \in 1..10 : DigitChars[i] = c) - 1

\* A number of JavaScript whose value is a whole number below 2^54, as
\* hi * 10^8 + lo with 0 <= lo < 10^8.
Limb == 100000000
Num(hi, lo) == [hi |-> hi, lo |-> lo]

\* Not-a-number, which no comparison holds for; the ids of the model carry
\* no sign, so no parsed number is negative and NaN is below every number.
NaN == Num(-1, 0)

TwoTo53 == Num(90071992, 54740992)

\* a < b
Less(a, b) == a.hi < b.hi \/ (a.hi = b.hi /\ a.lo < b.lo)

\* The whole number after n.
Succ(n) == IF n.lo + 1 = Limb THEN Num(n.hi + 1, 0) ELSE Num(n.hi, n.lo + 1)

\* The double nearest to the whole number n < 2^54: n itself up to 2^53;
\* beyond, the doubles are the even numbers and an odd n lies halfway
\* between two of them, of which the one with the even mantissa (the
\* multiple of 4) is taken.
ToDouble(n) ==
    IF ~Less(TwoTo53, n) \/ n.lo % 2 = 0 THEN n
    ELSE IF (n.lo + 1) % 4 = 0 THEN Succ(n)
    ELSE Num(n.hi, n.lo - 1)

\* max + 1
PlusOne(n) == ToDouble(Succ(n))

\* id.replace(/^T/, ""): one leading T is dropped.
StripT(chars) == IF chars # <<>> /\ chars[1] = "T" THEN Tail(chars) ELSE chars

\* The whole number the decimal digits chars[1..n] spell.
RECURSIVE DigitsValue(_, _)
DigitsValue(chars, n) ==
    IF n = 0 THEN Num(0, 0)
    ELSE LET v == DigitsValue(chars, n - 1)
             low == 10 * v.lo + DigitValue(chars[n])
         IN Num(10 * v.hi + (low \div Limb), low % Limb)

\* Number.parseInt(chars, 10): the double nearest to the number spelled by
\* the longest prefix of digits, NaN when the first character is no digit
\* (blanks and signs do not occur in the ids of the model).
parseInt(chars) ==
    LET n == CHOOSE k \in 0..Len(chars) :
                 /\ \A i \in 1..k : IsDigit(chars[i])
                 /\ k < Len(chars) => ~IsDigit(chars[k + 1])
    IN IF n = 0 THEN NaN ELSE ToDouble(DigitsValue(chars, n))

\* chars.padStart(len, c)
RECURSIVE PadStart(_, _, _)
PadStart(chars, len, c) ==
    IF Len(chars) >= len THEN chars ELSE PadStart(<<c>> \o chars, len, c)

\* The decimal digits of k >= 0.
RECURSIVE Digits(_)
Digits(k) ==
    IF k < 10 THEN <<DigitChars[k + 1]>>
    ELSE Digits(k \div 10) \o <<DigitChars[(k % 10) + 1]>>

\* String(n) for a whole number 0 <= n < 2^54, which is written without
\* exponent.
Decimal(n) ==
    IF n.hi = 0 THEN Digits(n.lo) ELSE Digits(n.hi) \o PadStart(Digits(n.lo), 8, "0")

(***************************************************************************)
(* config/types.ts                                                         *)
(***************************************************************************)
TaskStatus == {"pending", "in-progress", "complete", "failed", "skipped"}
Complexity == {"low", "medium", "high"}
TaskState == {"pending", "worktree-created", "scaffolding", "scaffolded",
              "executing", "evaluating", "complete", "failed"}
TERMINAL_STATUSES == {"complete", "failed", "skipped"}

ProjectName == "test-project"
EmptyTasks == [i \in {} |-> 0]
NoDoc == [project |-> "", tasks |-> EmptyTasks]

\* The relative path add-task gives a task file.
TaskFile(id) == <<"specs/tasks", id>>

SlimTask(title, status, deps, id, complexity, attempts) ==
    [title |-> title, status |-> status, dependencies |-> deps,
     file |-> TaskFile(id), complexity |-> complexity, attempts |-> attempts]

\* Dependency lists of bounded length, duplicates and dangling ids included.
RECURSIVE DepListsOfLen(_)
DepListsOfLen(n) ==
    IF n = 0 THEN {<<>>}
    ELSE {Append(s, d) : s \in DepListsOfLen(n - 1), d \in DepIds}

DepLists == UNION {DepListsOfLen(n) : n \in 0..MaxDeps}

(***************************************************************************)
(* The file system: a path holds a file or nothing.  A file's text is the  *)
(* sequence of tokens written so far, so that a write in progress is a     *)
(* proper prefix of the text being written.                                *)
(***************************************************************************)
GraphPath == <<"task-graph.json">>
\* Mutant: save() writes the target itself.
TmpPath_InPlace(filePath, t) == filePath

TmpPath(filePath, t) == filePath \o <<".tmp.", t>>
Paths == {GraphPath} \cup {TmpPath(GraphPath, t) : t \in 0..MaxClock}

NoFile == [exists |-> FALSE, text |-> <<>>]
File(text) == [exists |-> TRUE, text |-> text]

\* JSON.stringify(data, null, 2) followed by "\n", as tokens: the opening
\* brace with the project, one token per task entry, the closing brace and
\* the trailing newline.
\* Mutant: the attempts of a task are not written out.
Stringify_DropsAttempts(doc) ==
    LET ids == SortIds(DOMAIN doc.tasks)
    IN <<[k |-> "open", project |-> doc.project]>>
       \o [i \in 1..Len(ids) |->
             [k |-> "task", id |-> ids[i], task |-> [doc.tasks[ids[i]] EXCEPT !.attempts = 0]]]
       \o <<[k |-> "close"]>>

Stringify(doc) ==
    LET ids == SortIds(DOMAIN doc.tasks)
    IN <<[k |-> "open", project |-> doc.project]>>
       \o [i \in 1..Len(ids) |-> [k |-> "task", id |-> ids[i], task |-> doc.tasks[ids[i]]]]
       \o <<[k |-> "close"]>>

SaveText(doc) == Stringify(doc) \o <<[k |-> "nl"]>>

\* JSON.parse accepts a text exactly when it is one whole object, followed
\* by optional white space.
Parses(text) ==
    LET n == IF Len(text) > 0 /\ text[Len(text)].k = "nl" THEN Len(text) - 1 ELSE Len(text)
    IN /\ n >= 2
       /\ text[1].k = "open"
       /\ text[n].k = "close"
       /\ \A i \in 2..(n - 1) : text[i].k = "task"

JsonParse(text) ==
    LET n == IF text[Len(text)].k = "nl" THEN Len(text) - 1 ELSE Len(text)
        ids == {text[i].id : i \in 2..(n - 1)}
    IN [project |-> text[1].project,
        tasks |-> [id \in ids |->
                     LET last == CHOOSE i \in 2..(n - 1) :
                                    /\ text[i].id = id
                                    /\ \A j \in (i + 1)..(n - 1) : text[j].id # id
                     IN text[last].task]]

writeFile(fs, path, text) == [fs EXCEPT ![path] = File(text)]

\* Mutant: the arguments of rename are swapped.
rename_Swapped(fs, from, to) ==
    IF from = to THEN fs ELSE [fs EXCEPT ![from] = fs[to], ![to] = NoFile]

rename(fs, from, to) ==
    IF from = to THEN fs ELSE [fs EXCEPT ![to] = fs[from], ![from] = NoFile]

(***************************************************************************)
(* TaskGraph accessors, as functions of the in-memory document.            *)
(***************************************************************************)
\* Mutant: only a high complexity gets the heavy model.
ModelFor_HighOnly(complexity) ==
    IF complexity = "high" THEN "claude-opus-4-6" ELSE "claude-sonnet-4-6"

ModelFor(complexity) == IF complexity = "low" THEN "claude-sonnet-4-6" ELSE "claude-opus-4-6"

\* The entry readyTasks() pushes for a task.
ReadyTask(doc, id) ==
    [id |-> id,
     title |-> doc.tasks[id].title,
     complexity |-> doc.tasks[id].complexity,
     model |-> ModelFor(doc.tasks[id].complexity),
     file |-> doc.tasks[id].file]

\* Mutant: only a complete dependency unblocks.
readyTasks_CompleteOnly(doc) ==
    LET terminalIds == {id \in DOMAIN doc.tasks : doc.tasks[id].status = "complete"}
        ready == {id \in DOMAIN doc.tasks :
                    /\ doc.tasks[id].status = "pending"
                    /\ \A i \in 1..Len(doc.tasks[id].dependencies) :
                          doc.tasks[id].dependencies[i] \in terminalIds}
        ids == SortIds(ready)
    IN [i \in 1..Len(ids) |-> ReadyTask(doc, ids[i])]

\* Mutant: the status test lets every unfinished task through.
readyTasks_Unfinished(doc) ==
    LET terminalIds == {id \in DOMAIN doc.tasks : doc.tasks[id].status \in TERMINAL_STATUSES}
        ready == {id \in DOMAIN doc.tasks :
                    /\ doc.tasks[id].status \notin TERMINAL_STATUSES
                    /\ \A i \in 1..Len(doc.tasks[id].dependencies) :
                          doc.tasks[id].dependencies[i] \in terminalIds}
        ids == SortIds(ready)
    IN [i \in 1..Len(ids) |-> ReadyTask(doc, ids[i])]

\* Mutant: a dependency blocks only while it names an unfinished task.
readyTasks_DanglingPasses(doc) ==
    LET openIds == {id \in DOMAIN doc.tasks : doc.tasks[id].status \notin TERMINAL_STATUSES}
        ready == {id \in DOMAIN doc.tasks :
                    /\ doc.tasks[id].status = "pending"
                    /\ \A i \in 1..Len(doc.tasks[id].dependencies) :
                          doc.tasks[id].dependencies[i] \notin openIds}
        ids == SortIds(ready)
    IN [i \in 1..Len(ids) |-> ReadyTask(doc, ids[i])]

\* Mutant: a failed dependency keeps its dependents waiting.
readyTasks_FailedBlocks(doc) ==
    LET terminalIds == {id \in DOMAIN doc.tasks : doc.tasks[id].status \in {"complete", "skipped"}}
        ready == {id \in DOMAIN doc.tasks :
                    /\ doc.tasks[id].status = "pending"
                    /\ \A i \in 1..Len(doc.tasks[id].dependencies) :
                          doc.tasks[id].dependencies[i] \in terminalIds}
        ids == SortIds(ready)
    IN [i \in 1..Len(ids) |-> ReadyTask(doc, ids[i])]

readyTasks(doc) ==
    LET terminalIds == {id \in DOMAIN doc.tasks : doc.tasks[id].status \in TERMINAL_STATUSES}
        ready == {id \in DOMAIN doc.tasks :
                    /\ doc.tasks[id].status = "pending"
                    /\ \A i \in 1..Len(doc.tasks[id].dependencies) :
                          doc.tasks[id].dependencies[i] \in terminalIds}
        ids == SortIds(ready)
    IN [i \in 1..Len(ids) |-> ReadyTask(doc, ids[i])]

ReadyIds(doc) == {readyTasks(doc)[i].id : i \in 1..Len(readyTasks(doc))}

(***************************************************************************)
(* TaskGraph mutators, as functions from the document and the arguments    *)
(* to the outcome: the new document, whether save() is reached, the value  *)
(* returned and the error thrown ("" when none).                           *)
(***************************************************************************)
Outcome(doc, save, n, err) == [doc |-> doc, save |-> save, n |-> n, err |-> err]

\* Mutant: the status is set in memory and save() is not reached.
setStatus_Unsaved(doc, taskId, status) ==
    IF taskId \in DOMAIN doc.tasks
    THEN Outcome([doc EXCEPT !.tasks[taskId].status = status], FALSE, 0, "")
    ELSE Outcome(doc, FALSE, 0, "")

setStatus(doc, taskId, status) ==
    IF taskId \in DOMAIN doc.tasks
    THEN Outcome([doc EXCEPT !.tasks[taskId].status = status], TRUE, 0, "")
    ELSE Outcome(doc, FALSE, 0, "")

\* Mutant: every unfinished task is counted, pending ones included.
resetInterruptedTasks_CountsPending(doc) ==
    LET hit == {id \in DOMAIN doc.tasks : doc.tasks[id].status \notin TERMINAL_STATUSES}
        count == Cardinality(hit)
    IN Outcome([doc EXCEPT !.tasks = [id \in DOMAIN doc.tasks |->
                   IF id \in hit THEN [doc.tasks[id] EXCEPT !.status = "pending"]
                   ELSE doc.tasks[id]]],
               count > 0, count, "")

resetInterruptedTasks(doc) ==
    LET hit == {id \in DOMAIN doc.tasks : doc.tasks[id].status = "in-progress"}
        count == Cardinality(hit)
    IN Outcome([doc EXCEPT !.tasks = [id \in DOMAIN doc.tasks |->
                   IF id \in hit THEN [doc.tasks[id] EXCEPT !.status = "pending"]
                   ELSE doc.tasks[id]]],
               count > 0, count, "")

addTask(doc, taskId, task) ==
    Outcome([doc EXCEPT !.tasks = [id \in DOMAIN doc.tasks \cup {taskId} |->
                IF id = taskId THEN task ELSE doc.tasks[id]]],
            TRUE, 0, "")

\* Object.assign(task, updates): the fields updates has replace the task's.
Assign(task, updates) ==
    [f \in DOMAIN task |-> IF f \in DOMAIN updates THEN updates[f] ELSE task[f]]

\* Mutant: amending a task also clears its attempts.
amendTask_ResetsAttempts(doc, taskId, updates) ==
    IF taskId \notin DOMAIN doc.tasks THEN Outcome(doc, FALSE, 0, "Task not found")
    ELSE Outcome([doc EXCEPT !.tasks[taskId] =
                     [Assign(doc.tasks[taskId], updates) EXCEPT !.attempts = 0]],
                 TRUE, 0, "")

amendTask(doc, taskId, updates) ==
    IF taskId \notin DOMAIN doc.tasks THEN Outcome(doc, FALSE, 0, "Task not found")
    ELSE Outcome([doc EXCEPT !.tasks[taskId] = Assign(doc.tasks[taskId], updates)], TRUE, 0, "")

\* Mutant: an id that names no task is passed over without an error.
incrementAttempts_Silent(doc, taskId) ==
    IF taskId \notin DOMAIN doc.tasks THEN Outcome(doc, FALSE, 0, "")
    ELSE Outcome([doc EXCEPT !.tasks[taskId].attempts = @ + 1], TRUE, 0, "")

incrementAttempts(doc, taskId) ==
    IF taskId \notin DOMAIN doc.tasks THEN Outcome(doc, FALSE, 0, "Task not found")
    ELSE Outcome([doc EXCEPT !.tasks[taskId].attempts = @ + 1], TRUE, 0, "")

\* indexOf: the first index holding x, 0 when there is none.
IndexOf(s, x) ==
    IF x \in Range(s) THEN CHOOSE i \in 1..Len(s) : s[i] = x /\ \A j \in 1..(i - 1) : s[j] # x
    ELSE 0

\* [...new Set(s)]: first occurrences, in order.
RECURSIVE Dedup(_)
Dedup(s) ==
    IF s = <<>> THEN <<>>
    ELSE LET init == Dedup(SubSeq(s, 1, Len(s) - 1))
             x == s[Len(s)]
         IN IF x \in Range(init) THEN init ELSE Append(init, x)

\* dependencies.splice(idx, 1, ...toTaskIds), idx counted from 1.
Splice(s, idx, ins) == SubSeq(s, 1, idx - 1) \o ins \o SubSeq(s, idx + 1, Len(s))

\* Mutant: the entry is removed and the replacements are appended at the
\* end of the list.
moveDeps_AppendsAtEnd(doc, fromTaskId, toTaskIds) ==
    Outcome([doc EXCEPT !.tasks = [id \in DOMAIN doc.tasks |->
                LET deps == doc.tasks[id].dependencies
                    idx == IndexOf(deps, fromTaskId)
                IN IF idx = 0 THEN doc.tasks[id]
                   ELSE [doc.tasks[id] EXCEPT
                           !.dependencies = Dedup(Splice(deps, idx, <<>>) \o toTaskIds)]]],
            TRUE, 0, "")

moveDeps(doc, fromTaskId, toTaskIds) ==
    Outcome([doc EXCEPT !.tasks = [id \in DOMAIN doc.tasks |->
                LET deps == doc.tasks[id].dependencies
                    idx == IndexOf(deps, fromTaskId)
                IN IF idx = 0 THEN doc.tasks[id]
                   ELSE [doc.tasks[id] EXCEPT
                           !.dependencies = Dedup(Splice(deps, idx, toTaskIds))]]],
            TRUE, 0, "")

addDep(doc, taskId, depId) ==
    IF taskId \notin DOMAIN doc.tasks THEN Outcome(doc, FALSE, 0, "Task not found")
    ELSE IF depId \in Range(doc.tasks[taskId].dependencies) THEN Outcome(doc, TRUE, 0, "")
    ELSE Outcome([doc EXCEPT !.tasks[taskId].dependencies = Append(@, depId)], TRUE, 0, "")

\* nextTaskId: max starts at 0 and is raised by every key whose parsed
\* number is greater (never by NaN).
nextTaskId(doc) ==
    LET nums == {parseInt(StripT(Spelling(id))) : id \in DOMAIN doc.tasks} \cup {Num(0, 0)}
        max == CHOOSE m \in nums : \A n \in nums : ~Less(m, n)
    IN Unspell(<<"T">> \o PadStart(Decimal(PlusOne(max)), 3, "0"))

\* dependents: the ids of the tasks whose dependencies include taskId,
\* sorted.
dependents(doc, taskId) ==
    SortIds({id \in DOMAIN doc.tasks : taskId \in Range(doc.tasks[id].dependencies)})

\* The loop of transitiveDownstream from position i of the queue: every
\* task that lists queue[i] and was not visited is visited and queued.
RECURSIVE DownstreamFrom(_, _, _, _)
DownstreamFrom(doc, queue, i, visited) ==
    IF i > Len(queue) THEN SortIds(visited)
    ELSE LET found == {id \in DOMAIN doc.tasks :
                          /\ queue[i] \in Range(doc.tasks[id].dependencies)
                          /\ id \notin visited}
         IN DownstreamFrom(doc, queue \o SortIds(found), i + 1, visited \cup found)

\* Mutant: the walk stops at the direct dependents.
transitiveDownstream_DirectOnly(doc, taskId) == dependents(doc, taskId)

transitiveDownstream(doc, taskId) == DownstreamFrom(doc, <<taskId>>, 1, {})

\* The loop of transitiveUpstream from position i of the queue: a queued
\* id that names no task is skipped, every dependency of a queued task
\* that was not visited is visited and queued.
RECURSIVE UpstreamFrom(_, _, _, _)
UpstreamFrom(doc, queue, i, visited) ==
    IF i > Len(queue) THEN SortIds(visited)
    ELSE IF queue[i] \notin DOMAIN doc.tasks THEN UpstreamFrom(doc, queue, i + 1, visited)
    ELSE LET deps == doc.tasks[queue[i]].dependencies
             found == Dedup(SelectSeq(deps, LAMBDA dep : dep \notin visited))
         IN UpstreamFrom(doc, queue \o found, i + 1, visited \cup Range(found))

\* Mutant: the walk stops at the direct dependencies.
transitiveUpstream_DirectOnly(doc, taskId) ==
    IF taskId \in DOMAIN doc.tasks THEN SortIds(Range(doc.tasks[taskId].dependencies))
    ELSE <<>>

transitiveUpstream(doc, taskId) == UpstreamFrom(doc, <<taskId>>, 1, {})

CanLoad(fs, filePath) == fs[filePath].exists /\ Parses(fs[filePath].text)

\* Mutant: load reclaims the in-progress tasks it finds.
load_Reclaiming(fs, filePath) ==
    LET doc == JsonParse(fs[filePath].text)
    IN [doc EXCEPT !.tasks = [id \in DOMAIN doc.tasks |->
          IF doc.tasks[id].status = "in-progress"
          THEN [doc.tasks[id] EXCEPT !.status = "pending"]
          ELSE doc.tasks[id]]]

load(fs, filePath) == JsonParse(fs[filePath].text)

save(fs, filePath, doc, t) ==
    LET tmpPath == TmpPath(filePath, t)
    IN rename(writeFile(fs, tmpPath, SaveText(doc)), tmpPath, filePath)

(***************************************************************************)
(* The commands, as functions from the files and the arguments to what the *)
(* process leaves: the files, its exit code, the message on stderr and the *)
(* text on stdout.                                                         *)
(***************************************************************************)
VALID_STATUSES == {"pending", "in-progress", "complete", "failed", "skipped"}

Exited(fs, code, err, out) == [fs |-> fs, code |-> code, err |-> err, out |-> out]

\* Mutant: the status is checked after the graph was updated.
setStatusCommand_ChecksLast(fs, taskId, status, t) ==
    IF ~CanLoad(fs, GraphPath) THEN Exited(fs, 1, "load failed", "")
    ELSE LET r == setStatus(load(fs, GraphPath), taskId, status)
             saved == IF r.save THEN save(fs, GraphPath, r.doc, t) ELSE fs
         IN IF status \notin VALID_STATUSES THEN Exited(saved, 1, "Invalid status", "")
            ELSE Exited(saved, 0, "", status)

\* set-status <task-id> <status>: the status is checked, the graph loaded
\* (an exception of load ends the process with code 1), setStatus called
\* and `${taskId} -> ${status}` printed.
setStatusCommand(fs, taskId, status, t) ==
    IF status \notin VALID_STATUSES THEN Exited(fs, 1, "Invalid status", "")
    ELSE IF ~CanLoad(fs, GraphPath) THEN Exited(fs, 1, "load failed", "")
    ELSE LET r == setStatus(load(fs, GraphPath), taskId, status)
         IN Exited(IF r.save THEN save(fs, GraphPath, r.doc, t) ELSE fs, 0, "", status)

\* Mutant: a skipped task is still counted.
remainingCount_SkippedCounts(doc) ==
    Cardinality({id \in DOMAIN doc.tasks : doc.tasks[id].status \notin {"complete", "failed"}})

remainingCount(doc) ==
    Cardinality({id \in DOMAIN doc.tasks : doc.tasks[id].status \notin TERMINAL_STATUSES})

\* status --json: the graph is loaded and the summary printed with the
\* remaining count.
statusCommand(fs) ==
    IF ~CanLoad(fs, GraphPath) THEN Exited(fs, 1, "load failed", "")
    ELSE Exited(fs, 0, "", "summary")

\* ready --json: the graph is loaded and readyTasks() printed.
readyCommand(fs) ==
    IF ~CanLoad(fs, GraphPath) THEN Exited(fs, 1, "load failed", "")
    ELSE Exited(fs, 0, "", "ready")

(***************************************************************************)
(* dark-factory-loop.sh: the outer conductor loop.  loop holds             *)
(*   loop.at             where the script is: before an iteration          *)
(*                       ("start", "next"), waiting for the session        *)
(*                       ("session"), after it ("ended"), or over ("done"),*)
(*   loop.SESSION_COUNT  the sessions started,                             *)
(*   loop.compacted      whether .claude/.compacted exists,                *)
(*   loop.REMAINING      the last value of $REMAINING,                     *)
(*   loop.code, .said    the exit code and the closing banner.             *)
(***************************************************************************)
NotStarted ==
    [at |-> "start", SESSION_COUNT |-> 0, compacted |-> FALSE, REMAINING |-> 1,
     code |-> -1, said |-> ""]

\* Mutant: a query that failed counts as nothing remaining.
Remaining_FailureIsDone(fs, answered) ==
    IF answered /\ statusCommand(fs).code = 0 THEN remainingCount(load(fs, GraphPath))
    ELSE 0

\* $(dark-factory status --json | python3 -c ... || echo "1") under pipefail:
\* the "remaining" of the summary when both programs ran to their end, 1 when
\* either failed (answered is FALSE when a program could not be run).
Remaining(fs, answered) ==
    IF answered /\ statusCommand(fs).code = 0 THEN remainingCount(load(fs, GraphPath))
    ELSE 1

\* The script after `wait`: continue when the marker exists, else the query
\* and exit 0 on "0".
afterSession(l, fs, answered) ==
    IF l.compacted THEN [l EXCEPT !.at = "next"]
    ELSE IF Remaining(fs, answered) = 0
         THEN [l EXCEPT !.at = "done", !.REMAINING = 0, !.code = 0,
                        !.said = "All tasks complete"]
         ELSE [l EXCEPT !.at = "next", !.REMAINING = Remaining(fs, answered)]

(***************************************************************************)
(* core/worktree.ts: the git repository at config.projectRoot and the      *)
(* commands run on it through exec().  A repository r holds                *)
(*   git.head   the branch checked out at projectRoot,                     *)
(*   git.held   whether the integration branch is checked out in another   *)
(*              worktree of the repository,                                *)
(*   git.tree   the index and working tree at projectRoot,                 *)
(*   git.index  the task whose squashed changes are staged,                *)
(*   git.reg    the ids whose worktree is registered,                      *)
(*   git.br     the branch <branchPrefix><id> of each id,                  *)
(*   git.has    per branch, the task branches whose commits it contains,   *)
(*   git.log    per branch, the messages of the commits made on it,        *)
(*   git.pushed the number of those commits origin has,                    *)
(*   dirs, marks  the directories <worktreeBase>/<id> and their markers.   *)
(***************************************************************************)
integrationBranch == "job/x"
OtherBranch == "main"
Branches == {integrationBranch, OtherBranch}

\* A task branch: absent; fresh, at the commit of the integration branch it
\* was created from; work, with commits that merge cleanly; clash, with
\* commits that conflict with the branch checked out at projectRoot.
BranchStates == {"absent", "fresh", "work", "clash"}

NoRepo ==
    [head |-> integrationBranch, held |-> FALSE, tree |-> "clean", index |-> {},
     reg |-> {}, br |-> [id \in TaskIds |-> "absent"],
     has |-> [b \in Branches |-> {}], log |-> [b \in Branches |-> <<>>], pushed |-> 0]

\* What exec() resolves to: ok is exitCode === 0, output is stdout + stderr.
ExecResult(ok, output, r) == [ok |-> ok, output |-> output, repo |-> r]

\* git worktree remove <dir> --force
gitWorktreeRemove(r, id) ==
    IF id \in r.git.reg
    THEN ExecResult(TRUE, "", [r EXCEPT !.git.reg = @ \ {id}, !.dirs = @ \ {id},
                                        !.marks = @ \ {id}])
    ELSE ExecResult(FALSE, "is not a working tree", r)

\* git worktree add <dir> -b <branch> <integrationBranch>: git creates the
\* branch first and fails if it exists; then it fails if the path is
\* taken, and the branch it created stays.
gitWorktreeAdd(r, id) ==
    IF r.git.br[id] # "absent" THEN ExecResult(FALSE, "branch already exists", r)
    ELSE LET made == [r EXCEPT !.git.br[id] = "fresh",
                               !.git.has = [b \in Branches |-> @[b] \ {id}]]
         IN IF id \in r.dirs THEN ExecResult(FALSE, "path already exists", made)
            ELSE ExecResult(TRUE, "", [made EXCEPT !.git.reg = @ \cup {id},
                                                   !.dirs = @ \cup {id}])

\* git branch -D <branch>: refused for a branch checked out in a worktree.
gitBranchDelete(r, id) ==
    IF r.git.br[id] = "absent" THEN ExecResult(FALSE, "branch not found", r)
    ELSE IF id \in r.git.reg THEN ExecResult(FALSE, "checked out", r)
    ELSE ExecResult(TRUE, "", [r EXCEPT !.git.br[id] = "absent",
                                        !.git.has = [b \in Branches |-> @[b] \ {id}]])

\* git checkout <integrationBranch>: refused while the branch is checked
\* out in another worktree or the index holds a conflict.
gitCheckout(r, branch) ==
    IF r.git.held \/ r.git.tree # "clean" THEN ExecResult(FALSE, "cannot switch", r)
    ELSE ExecResult(TRUE, "", [r EXCEPT !.git.head = branch])

\* git merge --squash <branch>, into the branch checked out: it stages the
\* changes and records no MERGE_HEAD; on a conflict the index and the
\* files are left with the conflict.
gitMergeSquash(r, id) ==
    IF r.git.tree = "conflict" THEN ExecResult(FALSE, "unmerged files", r)
    ELSE IF r.git.br[id] = "absent" THEN ExecResult(FALSE, "not something we can merge", r)
    ELSE IF r.git.br[id] = "clash"
         THEN ExecResult(FALSE, "CONFLICT", [r EXCEPT !.git.tree = "conflict"])
    ELSE IF r.git.br[id] = "work" /\ id \notin r.git.has[r.git.head]
         THEN ExecResult(TRUE, "", [r EXCEPT !.git.index = {id}])
    ELSE ExecResult(TRUE, "nothing to squash", r)

\* git merge --abort: there is no MERGE_HEAD after merge --squash, so git
\* refuses and touches nothing.
gitMergeAbort(r) == ExecResult(FALSE, "MERGE_HEAD missing", r)

\* git commit -m <message> --no-edit, on the branch checked out.
gitCommit(r, message) ==
    IF r.git.tree = "conflict" THEN ExecResult(FALSE, "unmerged files", r)
    ELSE IF r.git.index = {} THEN ExecResult(FALSE, "nothing to commit", r)
    ELSE ExecResult(TRUE, "",
            [r EXCEPT !.git.log[r.git.head] = Append(@, message),
                      !.git.has[r.git.head] = @ \cup r.git.index,
                      !.git.index = {}])

\* git push origin <integrationBranch>; reached is whether origin answers.
gitPush(r, reached) ==
    IF reached THEN ExecResult(TRUE, "", [r EXCEPT !.git.pushed = Len(r.git.log[integrationBranch])])
    ELSE ExecResult(FALSE, "could not read from remote", r)

\* One exec() call as the function saw it: the command, the branch checked
\* out at projectRoot when it ran, and what it resolved to.
Call(cmd, r, x) == [cmd |-> cmd, on |-> r.git.head, ok |-> x.ok, output |-> x.output]

\* `${config.worktreeBase}/${taskId}`
WorktreeDir(taskId) == taskId

\* What a function of worktree.ts comes to: the repository it leaves, the
\* value it returns (value = "" when it throws err), the exec() calls it
\* made and the levels it logged at.
Returns(r, value, err, calls, logged) ==
    [repo |-> r, value |-> value, err |-> err, calls |-> calls, logged |-> logged]

\* Mutant: the worktree at the path is not removed first.
createWorktree_NoRemove(r, taskId) ==
    LET first == gitWorktreeAdd(r, taskId)
        del == gitBranchDelete(first.repo, taskId)
        second == gitWorktreeAdd(del.repo, taskId)
        c1 == <<Call("worktree add", r, first)>>
        c2 == c1 \o <<Call("branch -D", first.repo, del), Call("worktree add", del.repo, second)>>
    IN IF first.ok THEN Returns(first.repo, WorktreeDir(taskId), "", c1, <<"log">>)
       ELSE IF second.ok THEN Returns(second.repo, WorktreeDir(taskId), "", c2, <<"log">>)
       ELSE Returns(second.repo, "", second.output, c2, <<>>)

\* Mutant: the outcome of the second attempt is not looked at.
createWorktree_Unchecked(r, taskId) ==
    LET rm == gitWorktreeRemove(r, taskId)
        first == gitWorktreeAdd(rm.repo, taskId)
        del == gitBranchDelete(first.repo, taskId)
        second == gitWorktreeAdd(del.repo, taskId)
        c1 == <<Call("worktree remove", r, rm), Call("worktree add", rm.repo, first)>>
        c2 == c1 \o <<Call("branch -D", first.repo, del), Call("worktree add", del.repo, second)>>
    IN IF first.ok THEN Returns(first.repo, WorktreeDir(taskId), "", c1, <<"log">>)
       ELSE Returns(second.repo, WorktreeDir(taskId), "", c2, <<"log">>)

createWorktree(r, taskId) ==
    LET rm == gitWorktreeRemove(r, taskId)
        first == gitWorktreeAdd(rm.repo, taskId)
        del == gitBranchDelete(first.repo, taskId)
        second == gitWorktreeAdd(del.repo, taskId)
        c1 == <<Call("worktree remove", r, rm), Call("worktree add", rm.repo, first)>>
        c2 == c1 \o <<Call("branch -D", first.repo, del), Call("worktree add", del.repo, second)>>
    IN IF first.ok THEN Returns(first.repo, WorktreeDir(taskId), "", c1, <<"log">>)
       ELSE IF second.ok THEN Returns(second.repo, WorktreeDir(taskId), "", c2, <<"log">>)
       ELSE Returns(second.repo, "", second.output, c2, <<>>)

\* Mutant: the branch is deleted only when the worktree was removed.
removeWorktree_Dependent(r, taskId) ==
    LET rm == gitWorktreeRemove(r, taskId)
        del == gitBranchDelete(rm.repo, taskId)
    IN IF rm.ok
       THEN Returns(del.repo, "", "", <<Call("worktree remove", r, rm),
                                     Call("branch -D", rm.repo, del)>>, <<>>)
       ELSE Returns(rm.repo, "", "", <<Call("worktree remove", r, rm)>>, <<>>)

removeWorktree(r, taskId) ==
    LET rm == gitWorktreeRemove(r, taskId)
        del == gitBranchDelete(rm.repo, taskId)
    IN Returns(del.repo, "", "", <<Call("worktree remove", r, rm),
                                Call("branch -D", rm.repo, del)>>, <<>>)

\* `feat(${taskId}): ${title}`
Message(taskId, title) == [taskId |-> taskId, title |-> title]

\* taskGraph.getTask(taskId)?.title ?? taskId
TitleOf(doc, taskId) == IF taskId \in DOMAIN doc.tasks THEN doc.tasks[taskId].title ELSE taskId

mergeTask(r, taskId, doc, reached) ==
    LET title == TitleOf(doc, taskId)
        switch == r.git.head # integrationBranch
        co == IF switch THEN gitCheckout(r, integrationBranch) ELSE ExecResult(TRUE, "", r)
        c0 == <<Call("branch --show-current", r, ExecResult(TRUE, r.git.head, r))>>
                 \o (IF switch THEN <<Call("checkout", r, co)>> ELSE <<>>)
        mergeResult == gitMergeSquash(co.repo, taskId)
        c1 == c0 \o <<Call("merge --squash", co.repo, mergeResult)>>
        abort == gitMergeAbort(mergeResult.repo)
        commitResult == gitCommit(mergeResult.repo, Message(taskId, title))
        c2 == c1 \o <<Call("commit", mergeResult.repo, commitResult)>>
        pushResult == gitPush(commitResult.repo, reached)
        c3 == c2 \o <<Call("push", commitResult.repo, pushResult)>>
    IN IF ~mergeResult.ok
       THEN Returns(abort.repo, "false", "",
                 c1 \o <<Call("merge --abort", mergeResult.repo, abort)>>, <<"err">>)
       ELSE IF ~commitResult.ok THEN Returns(commitResult.repo, "false", "", c2, <<"warn">>)
       ELSE Returns(pushResult.repo, "true", "", c3,
                 IF pushResult.ok THEN <<"ok">> ELSE <<"warn", "ok">>)

(***************************************************************************)
(* State.                                                                  *)
(***************************************************************************)
VARIABLES
    files,      \* the file system: path -> file
    pc,         \* position of each invocation (process)
    data,       \* TaskGraph.data of each invocation
    tmp,        \* the local tmp of a save() in progress
    wpos,       \* tokens of the text a writeFile in progress has written
    fd,         \* where the file a writeFile holds open is linked now
    now,        \* Date.now()
    ret,        \* outcome of the last call: value returned, error thrown
    worktrees,  \* ids with a directory <worktreeBase>/<id>
    markers,    \* ids with a scaffold marker inside their worktree
    results,    \* ids with a result file <outputDir>/<id>.md
    args,       \* arguments of the setStatus call whose save() is in progress
    git,        \* the repository at projectRoot
    loop,       \* dark-factory-loop.sh: where the script is and its variables
    expected,   \* history: the saved changes applied one after the other
    overlap     \* history: an invocation started while another was running

vars == <<files, pc, data, tmp, wpos, fd, now, ret, worktrees, markers, results,
          args, git, loop, expected, overlap>>
saveVars == <<tmp, wpos, fd, args>>
history == <<expected, overlap>>
evidence == <<worktrees, markers, results, git, loop>>

Procs == {"A", "B"}
NoFd == <<"closed">>
Orphan == <<"unlinked">>
Ret(n, err, st) == [n |-> n, err |-> err, st |-> st]

(***************************************************************************)
(* Inputs of the operations.                                               *)
(***************************************************************************)
NewTasks(id) == {SlimTask("t", "pending", deps, id, "medium", 0) : deps \in DepLists}

AmendInputs ==
    {[status |-> s] : s \in {"pending", "in-progress"}}
    \cup {[dependencies |-> d] : d \in DepListsOfLen(1)}
    \cup {[status |-> "failed", dependencies |-> <<>>]}

FitsBounds(doc) ==
    \A id \in DOMAIN doc.tasks :
        /\ Len(doc.tasks[id].dependencies) <= MaxDeps
        /\ doc.tasks[id].attempts <= MaxAttempts

\* The documents a job starts from: the empty graph `init` writes, and a
\* graph with one finished and one blocked task.
InitDocs ==
    {[project |-> ProjectName, tasks |-> EmptyTasks],
     [project |-> ProjectName,
      tasks |-> [id \in {IdTable[1], IdTable[2]} |->
                   IF id = IdTable[1]
                   THEN SlimTask("t", "complete", <<>>, id, "medium", 0)
                   ELSE SlimTask("t", "pending", <<IdTable[1]>>, id, "medium", 0)]]}

Init ==
    /\ \E doc \in InitDocs :
          /\ files = [path \in Paths |-> IF path = GraphPath THEN File(SaveText(doc)) ELSE NoFile]
          /\ expected = doc
    /\ overlap = FALSE
    /\ args = [p \in Procs |-> <<AbsentId, "pending">>]
    /\ pc = [p \in Procs |-> "none"]
    /\ data = [p \in Procs |-> NoDoc]
    /\ tmp = [p \in Procs |-> GraphPath]
    /\ wpos = [p \in Procs |-> 0]
    /\ fd = [p \in Procs |-> NoFd]
    /\ now = 0
    /\ ret = Ret(0, "", "")
    /\ worktrees = {}
    /\ markers = {}
    /\ results = {}
    /\ git = NoRepo
    /\ loop = NotStarted

(***************************************************************************)
(* One invocation: load, calls on the handle, exit.                        *)
(***************************************************************************)
\* TaskGraph.load: read the file and parse it; a missing or unparsable file
\* throws and the invocation ends.
Load(p) ==
    /\ pc[p] = "none"
    /\ IF CanLoad(files, GraphPath)
       THEN /\ pc' = [pc EXCEPT ![p] = "ready"]
            /\ data' = [data EXCEPT ![p] = load(files, GraphPath)]
            /\ ret' = Ret(0, "", "loaded")
       ELSE /\ pc' = [pc EXCEPT ![p] = "none"]
            /\ data' = data
            /\ ret' = Ret(0, "load failed", "")
    /\ overlap' = (overlap \/ \E q \in Procs \ {p} : pc[q] # "none")
    /\ UNCHANGED <<files, saveVars, now, evidence, expected>>

\* The process ends, by returning or by being killed, between two calls.
Exit(p) ==
    /\ pc[p] = "ready"
    /\ pc' = [pc EXCEPT ![p] = "none"]
    /\ data' = [data EXCEPT ![p] = NoDoc]
    /\ UNCHANGED <<files, saveVars, now, ret, evidence, history>>

\* A mutator run to its return: the in-memory change and, when the mutator
\* reaches it, the whole of save().  With one invocation at a time the
\* document saved is the saved changes applied in order.
Commit(p, r) ==
    /\ pc[p] = "ready"
    /\ FitsBounds(r.doc)
    /\ data' = [data EXCEPT ![p] = r.doc]
    /\ files' = IF r.save THEN save(files, GraphPath, r.doc, now) ELSE files
    /\ ret' = Ret(r.n, r.err, "")
    /\ expected' = IF r.save THEN r.doc ELSE expected
    /\ UNCHANGED <<pc, saveVars, now, evidence, overlap>>

DoSetStatus(p, taskId, status) == Commit(p, setStatus(data[p], taskId, status))
DoResetInterruptedTasks(p) == Commit(p, resetInterruptedTasks(data[p]))
DoAddTask(p, taskId, task) == Commit(p, addTask(data[p], taskId, task))
DoAmendTask(p, taskId, updates) == Commit(p, amendTask(data[p], taskId, updates))
DoIncrementAttempts(p, taskId) == Commit(p, incrementAttempts(data[p], taskId))
DoMoveDeps(p, fromTaskId, toTaskIds) == Commit(p, moveDeps(data[p], fromTaskId, toTaskIds))
DoAddDep(p, taskId, depId) == Commit(p, addDep(data[p], taskId, depId))

CallSetStatus(p) == \E taskId \in DepIds, status \in TaskStatus : DoSetStatus(p, taskId, status)

CallResetInterruptedTasks(p) == DoResetInterruptedTasks(p)

CallAddTask(p) == \E taskId \in TaskIds : \E task \in NewTasks(taskId) : DoAddTask(p, taskId, task)

CallAmendTask(p) == \E taskId \in DepIds, updates \in AmendInputs : DoAmendTask(p, taskId, updates)

CallIncrementAttempts(p) == \E taskId \in DepIds : DoIncrementAttempts(p, taskId)

CallMoveDeps(p) ==
    \E fromTaskId \in DepIds, toTaskIds \in DepLists : DoMoveDeps(p, fromTaskId, toTaskIds)

CallAddDep(p) == \E taskId \in DepIds, depId \in DepIds : DoAddDep(p, taskId, depId)

Mutate(p) ==
    \/ CallSetStatus(p)
    \/ CallResetInterruptedTasks(p)
    \/ CallAddTask(p)
    \/ CallAmendTask(p)
    \/ CallIncrementAttempts(p)
    \/ CallMoveDeps(p)
    \/ CallAddDep(p)

(***************************************************************************)
(* Spec: one invocation at a time, every mutator run to its return.        *)
(***************************************************************************)
Next ==
    \/ Load("A")
    \/ Exit("A")
    \/ Mutate("A")

Spec == Init /\ [][Next]_vars

(***************************************************************************)
(* save() step by step: the awaits of writeFile and rename are the points  *)
(* where another process runs or this one is killed.                       *)
(***************************************************************************)
Saving(p) == pc[p] \in {"open", "write"}

\* setStatus up to the first await of save(): the status is set in memory,
\* tmp is computed from Date.now() and the text is serialized.
StartSetStatus(p, statuses) ==
    /\ pc[p] = "ready"
    /\ \E taskId \in TaskIds, status \in statuses :
          LET r == setStatus(data[p], taskId, status)
          IN /\ data' = [data EXCEPT ![p] = r.doc]
             /\ args' = [args EXCEPT ![p] = <<taskId, status>>]
             /\ IF r.save
                THEN /\ pc' = [pc EXCEPT ![p] = "open"]
                     /\ tmp' = [tmp EXCEPT ![p] = TmpPath(GraphPath, now)]
                ELSE UNCHANGED <<pc, tmp>>
    /\ ret' = Ret(0, "", "")
    /\ UNCHANGED <<files, wpos, fd, now, evidence, history>>

\* writeFile opens tmp for writing: the file is created, or truncated when
\* it exists (another writer of the same file keeps its own offset).
OpenTmp(p) ==
    /\ pc[p] = "open"
    /\ files' = writeFile(files, tmp[p], <<>>)
    /\ fd' = [fd EXCEPT ![p] = tmp[p]]
    /\ wpos' = [wpos EXCEPT ![p] = 0]
    /\ pc' = [pc EXCEPT ![p] = "write"]
    /\ UNCHANGED <<data, tmp, args, now, ret, evidence, history>>

\* The text of a file after a write of token tok at offset pos: a write
\* past the end leaves a hole.
WriteAt(text, pos, tok) ==
    [i \in 1..(IF pos + 1 > Len(text) THEN pos + 1 ELSE Len(text)) |->
        IF i = pos + 1 THEN tok
        ELSE IF i <= Len(text) THEN text[i]
        ELSE [k |-> "hole"]]

\* writeFile writes the next part of the text at the offset of its file
\* handle, into the file the handle was opened on, wherever that file is
\* linked now.
WriteChunk(p) ==
    /\ pc[p] = "write"
    /\ wpos[p] < Len(SaveText(data[p]))
    /\ files' = IF fd[p] \in Paths
                THEN [files EXCEPT ![fd[p]].text =
                        WriteAt(@, wpos[p], SaveText(data[p])[wpos[p] + 1])]
                ELSE files
    /\ wpos' = [wpos EXCEPT ![p] = @ + 1]
    /\ UNCHANGED <<pc, data, tmp, fd, args, now, ret, evidence, history>>

\* rename(tmp, filePath), after the write is complete.  The file that was
\* at tmp is now at filePath, the file that was at filePath is unlinked;
\* handles other writers hold on either follow their file.  With no file
\* at tmp, rename fails and save() throws.
RenameTmp(p) ==
    /\ pc[p] = "write"
    /\ wpos[p] = Len(SaveText(data[p]))
    /\ pc' = [pc EXCEPT ![p] = "ready"]
    /\ wpos' = [wpos EXCEPT ![p] = 0]
    /\ IF files[tmp[p]].exists
       THEN /\ files' = rename(files, tmp[p], GraphPath)
            /\ fd' = [q \in Procs |->
                        IF q = p THEN NoFd
                        ELSE IF tmp[p] = GraphPath THEN fd[q]
                        ELSE IF fd[q] = tmp[p] THEN GraphPath
                        ELSE IF fd[q] = GraphPath THEN Orphan
                        ELSE fd[q]]
            /\ ret' = Ret(0, "", "")
            /\ expected' = setStatus(expected, args[p][1], args[p][2]).doc
       ELSE /\ files' = files
            /\ fd' = [fd EXCEPT ![p] = NoFd]
            /\ ret' = Ret(0, "ENOENT", "")
            /\ expected' = expected
    /\ UNCHANGED <<data, tmp, args, now, evidence, overlap>>

\* The process is killed, wherever it is; what it wrote stays.
Kill(p) ==
    /\ pc[p] # "none"
    /\ pc' = [pc EXCEPT ![p] = "none"]
    /\ data' = [data EXCEPT ![p] = NoDoc]
    /\ fd' = [fd EXCEPT ![p] = NoFd]
    /\ wpos' = [wpos EXCEPT ![p] = 0]
    /\ UNCHANGED <<files, tmp, args, now, ret, evidence, history>>

\* A millisecond passes.
Tick ==
    /\ now < MaxClock
    /\ now' = now + 1
    /\ UNCHANGED <<files, pc, data, saveVars, ret, evidence, history>>

(***************************************************************************)
(* SpecCrash: one writer, killed and restarted at will, and one reader.    *)
(***************************************************************************)
CrashStatuses == {"in-progress", "complete"}

NextCrash ==
    \/ Load("A")
    \/ StartSetStatus("A", CrashStatuses)
    \/ OpenTmp("A")
    \/ WriteChunk("A")
    \/ RenameTmp("A")
    \/ Kill("A")
    \/ Load("B")
    \/ Exit("B")

SpecCrash == Init /\ [][NextCrash]_vars

(***************************************************************************)
(* SpecConc: two invocations on the same graph file, not serialized.       *)
(***************************************************************************)
ConcStatuses == {"failed"}

NextConc ==
    \/ \E p \in Procs :
          \/ Load(p)
          \/ StartSetStatus(p, ConcStatuses)
          \/ OpenTmp(p)
          \/ WriteChunk(p)
          \/ RenameTmp(p)
          \/ Exit(p)
    \/ Tick

SpecConc == Init /\ [][NextConc]_vars

(***************************************************************************)
(* commands/task-state.ts: the recovery state of a task, derived from the  *)
(* persisted status and from what exists on disk.                          *)
(***************************************************************************)
Derived(st, err) == [st |-> st, err |-> err]

\* Mutant: the scaffold marker is looked at before the result file.
deriveTaskState_MarkerFirst(taskId, doc, wts, mks, res) ==
    IF taskId \notin DOMAIN doc.tasks THEN Derived("", "Task <id> not found")
    ELSE LET task == doc.tasks[taskId]
             hasWorktree == taskId \in wts
             hasScaffold == hasWorktree /\ taskId \in mks
             hasResult == taskId \in res
         IN IF task.status = "complete" THEN Derived("complete", "")
            ELSE IF task.status = "failed" THEN Derived("failed", "")
            ELSE IF task.status = "skipped" THEN Derived("complete", "")
            ELSE IF hasScaffold THEN Derived("scaffolded", "")
            ELSE IF hasResult THEN Derived("evaluating", "")
            ELSE IF hasWorktree /\ task.status = "in-progress" THEN Derived("worktree-created", "")
            ELSE Derived("pending", "")

\* Mutant: the worktree is looked at before the result file.
deriveTaskState_WorktreeFirst(taskId, doc, wts, mks, res) ==
    IF taskId \notin DOMAIN doc.tasks THEN Derived("", "Task <id> not found")
    ELSE LET task == doc.tasks[taskId]
             hasWorktree == taskId \in wts
             hasScaffold == hasWorktree /\ taskId \in mks
             hasResult == taskId \in res
         IN IF task.status = "complete" THEN Derived("complete", "")
            ELSE IF task.status = "failed" THEN Derived("failed", "")
            ELSE IF task.status = "skipped" THEN Derived("complete", "")
            ELSE IF hasWorktree /\ ~hasScaffold /\ task.status = "in-progress"
                 THEN Derived("worktree-created", "")
            ELSE IF hasResult THEN Derived("evaluating", "")
            ELSE IF hasScaffold THEN Derived("scaffolded", "")
            ELSE Derived("pending", "")

\* wts, mks and res are what fileExists answers: the ids whose worktree
\* directory, scaffold marker and result file exist.
deriveTaskState(taskId, doc, wts, mks, res) ==
    IF taskId \notin DOMAIN doc.tasks THEN Derived("", "Task <id> not found")
    ELSE LET task == doc.tasks[taskId]
             hasWorktree == taskId \in wts
             hasScaffold == hasWorktree /\ taskId \in mks
             hasResult == taskId \in res
         IN IF task.status = "complete" THEN Derived("complete", "")
            ELSE IF task.status = "failed" THEN Derived("failed", "")
            ELSE IF task.status = "skipped" THEN Derived("complete", "")
            ELSE IF hasResult THEN Derived("evaluating", "")
            ELSE IF hasScaffold THEN Derived("scaffolded", "")
            ELSE IF hasWorktree /\ task.status = "in-progress" THEN Derived("worktree-created", "")
            ELSE Derived("pending", "")

\* Mutant: the command answers from the last answer when there is one,
\* and counts the hit.
DoTaskState_Cached(p, taskId) ==
    /\ pc[p] = "ready"
    /\ LET d == deriveTaskState(taskId, data[p], worktrees, markers, results)
       IN ret' = IF ret.st \in TaskState THEN Ret(1, ret.err, ret.st) ELSE Ret(0, d.err, d.st)
    /\ UNCHANGED <<files, pc, data, saveVars, now, evidence, history>>

\* The task-state command on a loaded graph.
DoTaskState(p, taskId) ==
    /\ pc[p] = "ready"
    /\ LET d == deriveTaskState(taskId, data[p], worktrees, markers, results)
       IN ret' = Ret(0, d.err, d.st)
    /\ UNCHANGED <<files, pc, data, saveVars, now, evidence, history>>

CallTaskState(p) == \E taskId \in DepIds : DoTaskState(p, taskId)

\* The external actors: the conductor creates and removes the worktree of
\* a task, the scaffolding agent commits the marker inside the worktree,
\* the implementation agent writes the result file.
CreateWorktree ==
    /\ \E id \in TaskIds : id \notin worktrees /\ worktrees' = worktrees \cup {id}
    /\ UNCHANGED <<files, pc, data, saveVars, now, ret, markers, results, git, loop, history>>

WriteMarker ==
    /\ \E id \in worktrees : id \notin markers /\ markers' = markers \cup {id}
    /\ UNCHANGED <<files, pc, data, saveVars, now, ret, worktrees, results, git, loop, history>>

WriteResult ==
    /\ \E id \in TaskIds : id \notin results /\ results' = results \cup {id}
    /\ UNCHANGED <<files, pc, data, saveVars, now, ret, worktrees, markers, git, loop, history>>

RemoveWorktree ==
    /\ \E id \in worktrees :
          /\ worktrees' = worktrees \ {id}
          /\ markers' = markers \ {id}
    /\ UNCHANGED <<files, pc, data, saveVars, now, ret, results, git, loop, history>>

(***************************************************************************)
(* SpecState: statuses set through the graph, artifacts by the actors.     *)
(***************************************************************************)
NextState ==
    \/ Load("A")
    \/ Exit("A")
    \/ CallSetStatus("A")
    \/ CallTaskState("A")
    \/ CreateWorktree
    \/ WriteMarker
    \/ WriteResult
    \/ RemoveWorktree

SpecState == Init /\ [][NextState]_vars

(***************************************************************************)
(* The worktree commands, each function of core/worktree.ts run to its     *)
(* return, and the actors around them.                                     *)
(***************************************************************************)
\* The repository as the commands find it.
Repo == [git |-> git, dirs |-> worktrees, marks |-> markers]

\* The function has come to x: the repository is as it left it and the
\* outcome is what it returned or threw, with the number of exec() calls
\* it made.
Finish(x) ==
    /\ git' = x.repo.git
    /\ worktrees' = x.repo.dirs
    /\ markers' = x.repo.marks
    /\ ret' = Ret(Len(x.calls), x.err, x.value)
    /\ UNCHANGED <<files, pc, data, saveVars, now, results, loop, history>>

\* worktree create <task-id>
DoCreateWorktree(taskId) == Finish(createWorktree(Repo, taskId))

\* worktree remove <task-id>
DoRemoveWorktree(taskId) == Finish(removeWorktree(Repo, taskId))

\* worktree merge <task-id>, on the loaded graph.
DoMergeTask(p, taskId, reached) ==
    /\ pc[p] = "ready"
    /\ LET x == mergeTask(Repo, taskId, data[p], reached)
       IN /\ Len(x.repo.git.log[integrationBranch]) + Len(x.repo.git.log[OtherBranch])
                <= MaxCommits
          /\ Finish(x)

\* The tasks the conductor runs the worktree commands for: those of the
\* graph the job starts from.
WorktreeIds == {IdTable[1], IdTable[2]}

CallCreateWorktree == \E taskId \in WorktreeIds : DoCreateWorktree(taskId)
CallRemoveWorktree == \E taskId \in WorktreeIds : DoRemoveWorktree(taskId)
CallMergeTask(p) ==
    \E taskId \in WorktreeIds, reached \in BOOLEAN : DoMergeTask(p, taskId, reached)

\* An agent commits in the worktree of its task: work that merges cleanly,
\* or work that conflicts.
AgentCommit ==
    /\ \E id \in git.reg \cap worktrees, kind \in {"work", "clash"} :
          git' = [git EXCEPT !.br[id] = kind, !.has = [b \in Branches |-> @[b] \ {id}]]
    /\ UNCHANGED <<files, pc, data, saveVars, now, ret, worktrees, markers, results, loop,
                   history>>

\* A process an agent left running writes below the path of its task
\* after the worktree is gone: the directory is there again, and is no
\* worktree.
StrayWrite ==
    /\ \E id \in WorktreeIds : id \notin worktrees /\ worktrees' = worktrees \cup {id}
    /\ UNCHANGED <<files, pc, data, saveVars, now, ret, markers, results, git, loop, history>>

\* The developer checks another branch out at projectRoot.
CheckoutOther ==
    /\ git.head = integrationBranch
    /\ git.tree = "clean"
    /\ git' = [git EXCEPT !.head = OtherBranch]
    /\ UNCHANGED <<files, pc, data, saveVars, now, ret, worktrees, markers, results, loop,
                   history>>

\* The developer checks the integration branch out in a worktree of their
\* own.
HoldIntegration ==
    /\ git.head = OtherBranch
    /\ ~git.held
    /\ git' = [git EXCEPT !.held = TRUE]
    /\ UNCHANGED <<files, pc, data, saveVars, now, ret, worktrees, markers, results, loop,
                   history>>

(***************************************************************************)
(* SpecWorktree: the worktree commands of one conductor, one at a time.    *)
(***************************************************************************)
NextWorktree ==
    \/ Load("A")
    \/ Exit("A")
    \/ CallCreateWorktree
    \/ CallRemoveWorktree
    \/ CallMergeTask("A")
    \/ AgentCommit
    \/ StrayWrite
    \/ CheckoutOther
    \/ HoldIntegration

SpecWorktree == Init /\ [][NextWorktree]_vars

(***************************************************************************)
(* SpecRecover: a writer killed at any step of a save, the artifacts of    *)
(* the actors, and the task-state command run by another process.          *)
(***************************************************************************)
RecoverStatuses == {"in-progress"}

NextRecover ==
    \/ Load("A")
    \/ StartSetStatus("A", RecoverStatuses)
    \/ OpenTmp("A")
    \/ WriteChunk("A")
    \/ RenameTmp("A")
    \/ Kill("A")
    \/ Load("B")
    \/ CallTaskState("B")
    \/ Exit("B")
    \/ CreateWorktree
    \/ WriteResult

SpecRecover == Init /\ [][NextRecover]_vars

(***************************************************************************)
(* SpecGraph: the commands that read and rewire the dependency edges of    *)
(* one loaded graph: add-task, add-dep, move-deps, dependents and list.    *)
(***************************************************************************)
\* An accessor called on the handle: nothing but the value returned.
Answer(p, n, st) ==
    /\ pc[p] = "ready"
    /\ ret' = Ret(n, "", st)
    /\ UNCHANGED <<files, pc, data, saveVars, now, evidence, history>>

DoDependents(p, taskId) == Answer(p, Len(dependents(data[p], taskId)), "dependents")

DoTransitiveDownstream(p, taskId) ==
    Answer(p, Len(transitiveDownstream(data[p], taskId)), "after")

DoTransitiveUpstream(p, taskId) ==
    Answer(p, Len(transitiveUpstream(data[p], taskId)), "before")

\* move-deps: the dependents are listed before the rewiring and their
\* number is what the command reports.
DoMoveDepsCommand(p, fromTaskId, toTaskIds) ==
    LET affected == dependents(data[p], fromTaskId)
        r == moveDeps(data[p], fromTaskId, toTaskIds)
    IN /\ pc[p] = "ready"
       /\ FitsBounds(r.doc)
       /\ data' = [data EXCEPT ![p] = r.doc]
       /\ files' = save(files, GraphPath, r.doc, now)
       /\ ret' = Ret(Len(affected), "", "Rewired")
       /\ expected' = r.doc
       /\ UNCHANGED <<pc, saveVars, now, evidence, overlap>>

CallDependents(p) == \E taskId \in DepIds : DoDependents(p, taskId)

CallTransitiveDownstream(p) == \E taskId \in DepIds : DoTransitiveDownstream(p, taskId)

CallTransitiveUpstream(p) == \E taskId \in DepIds : DoTransitiveUpstream(p, taskId)

CallMoveDepsCommand(p) ==
    \E fromTaskId \in DepIds, toTaskIds \in DepLists :
        DoMoveDepsCommand(p, fromTaskId, toTaskIds)

NextGraph ==
    \/ Load("A")
    \/ Exit("A")
    \/ CallAddTask("A")
    \/ CallAddDep("A")
    \/ CallMoveDepsCommand("A")
    \/ CallDependents("A")
    \/ CallTransitiveDownstream("A")
    \/ CallTransitiveUpstream("A")

SpecGraph == Init /\ [][NextGraph]_vars

(***************************************************************************)
(* SpecIds: add-task on one loaded graph, with the id given or generated.  *)
(***************************************************************************)
\* The ids --id is given: plain numbers, T and digits, and T and more.
GivenIds == {"7", IdTable[2], "T007a", BigId, AbsentId, "Tx"}

\* add-task: the id is --id, or nextTaskId() when --id is omitted (id = "");
\* the task is added pending, without attempts, and the command reports
\* the id.
DoAddTaskCommand(p, id, deps) ==
    LET taskId == IF id # "" THEN id ELSE nextTaskId(data[p])
        r == addTask(data[p], taskId, SlimTask("t", "pending", deps, taskId, "medium", 0))
    IN /\ pc[p] = "ready"
       /\ taskId \in KnownIds
       /\ Cardinality(DOMAIN r.doc.tasks) <= MaxTasks
       /\ FitsBounds(r.doc)
       /\ data' = [data EXCEPT ![p] = r.doc]
       /\ files' = save(files, GraphPath, r.doc, now)
       /\ ret' = Ret(0, "", taskId)
       /\ expected' = r.doc
       /\ UNCHANGED <<pc, saveVars, now, evidence, overlap>>

CallAddTaskCommand(p) == \E id \in GivenIds \cup {""} : DoAddTaskCommand(p, id, <<>>)

NextIds ==
    \/ Load("A")
    \/ Exit("A")
    \/ CallAddTaskCommand("A")

SpecIds == Init /\ [][NextIds]_vars

(***************************************************************************)
(* SpecTask: the mutators of one task record, on one loaded graph.         *)
(***************************************************************************)
NextTask ==
    \/ Load("A")
    \/ Exit("A")
    \/ CallAmendTask("A")
    \/ CallIncrementAttempts("A")
    \/ CallSetStatus("A")

SpecTask == Init /\ [][NextTask]_vars

(***************************************************************************)
(* SpecJob: the commands of a job run as whole processes on the graph      *)
(* file, next to extract-tasks and init, which write the file themselves.  *)
(***************************************************************************)
StatusArgs == VALID_STATUSES \cup {"bogus"}

\* The graphs writeJobTaskFiles builds from what the extraction holds; the
\* complexity is the string the extraction gave.
ExtractedGraphs ==
    {[project |-> ProjectName,
      tasks |-> [id \in {IdTable[1], IdTable[2]} |->
                   SlimTask("t", "pending", <<>>, id, IF id = IdTable[1] THEN c ELSE "low", 0)]] :
         c \in {"high", "huge"}}

\* The graph initJob writes.
EmptyGraph == [project |-> ProjectName, tasks |-> EmptyTasks]

\* A command run from start to exit by process p.
Run(p, x) ==
    /\ pc[p] = "none"
    /\ files' = x.fs
    /\ fd' = [q \in Procs |->
                IF fd[q] = GraphPath /\ x.fs[GraphPath] # files[GraphPath] THEN Orphan
                ELSE fd[q]]
    /\ ret' = Ret(x.code, x.err, x.out)
    /\ expected' = IF CanLoad(x.fs, GraphPath) THEN load(x.fs, GraphPath) ELSE expected
    /\ UNCHANGED <<pc, data, tmp, wpos, args, now, evidence, overlap>>

DoSetStatusCommand(p, taskId, status) == Run(p, setStatusCommand(files, taskId, status, now))

DoStatusCommand(p) == Run(p, statusCommand(files))

DoReadyCommand(p) == Run(p, readyCommand(files))

\* writeFile(graphPath, ...) of extract-tasks and init, up to its first
\* await: the text is serialized and the graph file itself is the target.
StartWriteFile(p, graph) ==
    /\ pc[p] = "none"
    /\ pc' = [pc EXCEPT ![p] = "open"]
    /\ data' = [data EXCEPT ![p] = graph]
    /\ tmp' = [tmp EXCEPT ![p] = GraphPath]
    /\ UNCHANGED <<files, wpos, fd, args, now, ret, evidence, history>>

\* The write is complete and the command exits.
CloseFile(p) ==
    /\ pc[p] = "write"
    /\ tmp[p] = GraphPath
    /\ wpos[p] = Len(SaveText(data[p]))
    /\ pc' = [pc EXCEPT ![p] = "none"]
    /\ fd' = [fd EXCEPT ![p] = NoFd]
    /\ wpos' = [wpos EXCEPT ![p] = 0]
    /\ expected' = data[p]
    /\ data' = [data EXCEPT ![p] = NoDoc]
    /\ ret' = Ret(0, "", "written")
    /\ UNCHANGED <<files, tmp, args, now, evidence, overlap>>

NextJob ==
    \/ \E graph \in ExtractedGraphs \cup {EmptyGraph} : StartWriteFile("A", graph)
    \/ OpenTmp("A")
    \/ WriteChunk("A")
    \/ CloseFile("A")
    \/ Kill("A")
    \/ \E taskId \in DepIds, status \in StatusArgs : DoSetStatusCommand("B", taskId, status)
    \/ DoStatusCommand("B")
    \/ DoReadyCommand("B")

SpecJob == Init /\ [][NextJob]_vars

(***************************************************************************)
(* SpecCount: the remaining count of a loaded graph while statuses are set *)
(* and the actors leave their artifacts.                                   *)
(***************************************************************************)
DoRemainingCount(p) == Answer(p, remainingCount(data[p]), "remaining")

NextCount ==
    \/ Load("A")
    \/ Exit("A")
    \/ CallSetStatus("A")
    \/ DoRemainingCount("A")
    \/ CreateWorktree
    \/ WriteResult

SpecCount == Init /\ [][NextCount]_vars

(***************************************************************************)
(* SpecLoop: the loop script, the sessions it starts and the conductor     *)
(* that works on the graph while a session runs.                           *)
(***************************************************************************)
LoopStep(l) ==
    /\ loop' = l
    /\ UNCHANGED <<files, pc, data, saveVars, now, ret, worktrees, markers, results, git,
                   history>>

\* for i in $(seq 1 "$MAX_SESSIONS"): SESSION_COUNT=$i, the marker is removed
\* and claude started.
StartSession ==
    /\ loop.at \in {"start", "next"}
    /\ loop.SESSION_COUNT < MAX_SESSIONS
    /\ LoopStep([loop EXCEPT !.at = "session", !.SESSION_COUNT = @ + 1, !.compacted = FALSE])

\* The list of seq is used up: the last echo, and the script ends.
MaxSessionsReached ==
    /\ loop.at \in {"start", "next"}
    /\ loop.SESSION_COUNT >= MAX_SESSIONS
    /\ LoopStep([loop EXCEPT !.at = "done", !.code = 0, !.said = "Max sessions reached"])

\* The PreCompact hook of the running session leaves the marker.
PreCompact ==
    /\ loop.at = "session"
    /\ ~loop.compacted
    /\ LoopStep([loop EXCEPT !.compacted = TRUE])

\* wait "$CLAUDE_PID" || true returns, whatever the session's exit code.
SessionEnds ==
    /\ loop.at = "session"
    /\ LoopStep([loop EXCEPT !.at = "ended"])

AfterSession(answered) ==
    /\ loop.at = "ended"
    /\ LoopStep(afterSession(loop, files, answered))

\* The conductor of the running session takes a ready task and records how
\* it ended.
Conduct(p) ==
    /\ loop.at = "session"
    /\ CanLoad(files, GraphPath)
    /\ \E taskId \in ReadyIds(load(files, GraphPath)), status \in TERMINAL_STATUSES :
          DoSetStatusCommand(p, taskId, status)

NextLoop ==
    \/ StartSession
    \/ MaxSessionsReached
    \/ PreCompact
    \/ SessionEnds
    \/ \E answered \in BOOLEAN : AfterSession(answered)
    \/ Conduct("B")
    \/ \E graph \in ExtractedGraphs : StartWriteFile("A", graph)
    \/ OpenTmp("A")
    \/ WriteChunk("A")
    \/ CloseFile("A")
    \/ Kill("A")

SpecLoop == Init /\ [][NextLoop]_vars

(***************************************************************************)
(* SpecSchedule: a graph is built and its statuses set before the loop     *)
(* script runs; then one session lasts as long as it takes, and its        *)
(* conductor keeps taking a ready task while there is one.                 *)
(***************************************************************************)
NextSchedule ==
    \/ loop.at = "start" /\ Load("A")
    \/ loop.at = "start" /\ Exit("A")
    \/ loop.at = "start" /\ CallAddTask("A")
    \/ loop.at = "start" /\ CallSetStatus("A")
    \/ pc["A"] = "none" /\ StartSession
    \/ Conduct("B")

SpecSchedule == Init /\ [][NextSchedule]_vars /\ WF_vars(Conduct("B"))

(***************************************************************************)
(* Properties of the ready set.                                            *)
(***************************************************************************)
Loaded(p) == pc[p] # "none"
StatusOf(doc, id) == doc.tasks[id].status
DepsOf(doc, id) == Range(doc.tasks[id].dependencies)
Done == {"complete", "failed", "skipped"}

\* Every dependency of id names a task of the document that is complete,
\* failed or skipped.
DepsSatisfied(doc, id) ==
    \A d \in DepsOf(doc, id) : d \in DOMAIN doc.tasks /\ StatusOf(doc, d) \in Done

\* C1: readyTasks() lists, once each, exactly the pending tasks whose every
\* dependency names a task of the document that is complete, failed or
\* skipped; a pending task without dependencies is listed, a task with a
\* pending or in-progress dependency is not.
C1_ReadyExactly ==
    \A p \in Procs : Loaded(p) =>
        LET doc == data[p]
        IN /\ ReadyIds(doc) =
                {id \in DOMAIN doc.tasks : StatusOf(doc, id) = "pending" /\ DepsSatisfied(doc, id)}
           /\ Len(readyTasks(doc)) = Cardinality(ReadyIds(doc))
           /\ \A id \in DOMAIN doc.tasks :
                 /\ (StatusOf(doc, id) = "pending" /\ DepsOf(doc, id) = {}) => id \in ReadyIds(doc)
                 /\ (\E d \in DepsOf(doc, id) \cap DOMAIN doc.tasks :
                        StatusOf(doc, d) \in {"pending", "in-progress"}) => id \notin ReadyIds(doc)

\* A task is ready through a failed and a skipped dependency.
C1_Witness ==
    \E p \in Procs : Loaded(p) /\ \E id \in ReadyIds(data[p]) :
        /\ \E d \in DepsOf(data[p], id) : StatusOf(data[p], d) = "failed"
        /\ ret.err = ""

\* C2: no task that is complete, failed, skipped or in-progress is listed
\* by readyTasks().
C2_OnlyPendingReady ==
    \A p \in Procs : Loaded(p) =>
        \A i \in 1..Len(readyTasks(data[p])) :
            StatusOf(data[p], readyTasks(data[p])[i].id) \notin
                {"complete", "failed", "skipped", "in-progress"}

\* An in-progress task whose dependencies are all satisfied is not listed.
C2_Witness ==
    \E p \in Procs : Loaded(p) /\ \E id \in DOMAIN data[p].tasks :
        /\ StatusOf(data[p], id) = "in-progress"
        /\ DepsOf(data[p], id) # {}
        /\ DepsSatisfied(data[p], id)
        /\ id \notin ReadyIds(data[p])

\* C5: a task with a dependency that is no key of the tasks map is not
\* listed by readyTasks(), whatever the statuses of the tasks.
C5_DanglingBlocks ==
    \A p \in Procs : Loaded(p) =>
        \A id \in DOMAIN data[p].tasks :
            (\E d \in DepsOf(data[p], id) : d \notin DOMAIN data[p].tasks)
                => id \notin ReadyIds(data[p])

\* A pending task whose only unsatisfied dependency is the dangling one,
\* beside a finished task.
C5_Witness ==
    \E p \in Procs : Loaded(p) /\ \E id \in DOMAIN data[p].tasks :
        /\ StatusOf(data[p], id) = "pending"
        /\ \E d \in DepsOf(data[p], id) : d \notin DOMAIN data[p].tasks
        /\ \E d \in DepsOf(data[p], id) : d \in DOMAIN data[p].tasks /\ StatusOf(data[p], d) \in Done
        /\ id \notin ReadyIds(data[p])

(***************************************************************************)
(* Properties of persistence.                                              *)
(***************************************************************************)
\* The document the graph file holds.
DiskDoc == JsonParse(files[GraphPath].text)

\* C4: when a mutator has returned, the document on disk is the document
\* in memory.
C4_SavedAfterMutator ==
    \A p \in Procs : pc[p] = "ready" => Parses(files[GraphPath].text) /\ DiskDoc = data[p]

\* A mutator has returned a count and the change is on disk.
C4_Witness ==
    /\ pc["A"] = "ready"
    /\ ret.n > 0
    /\ DiskDoc = data["A"]
    /\ DOMAIN DiskDoc.tasks # {}

\* C6: resetInterruptedTasks() turns every in-progress task to pending,
\* changes nothing else, returns the number of tasks it changed and leaves
\* the result on disk; afterwards no task is in-progress and a second call
\* returns 0 and changes nothing.
C6_ResetInterrupted ==
    [][\A p \in Procs : DoResetInterruptedTasks(p) =>
          LET old == data[p]
              new == data'[p]
              hit == {id \in DOMAIN old.tasks : StatusOf(old, id) = "in-progress"}
          IN /\ new.project = old.project
             /\ DOMAIN new.tasks = DOMAIN old.tasks
             /\ \A id \in DOMAIN old.tasks :
                   new.tasks[id] = IF id \in hit THEN [old.tasks[id] EXCEPT !.status = "pending"]
                                   ELSE old.tasks[id]
             /\ ret'.n = Cardinality(hit)
             /\ ret'.err = ""
             /\ DiskDoc' = new
             /\ \A id \in DOMAIN new.tasks : StatusOf(new, id) # "in-progress"
             /\ resetInterruptedTasks(new).n = 0
             /\ resetInterruptedTasks(new).doc = new
             /\ ~resetInterruptedTasks(new).save
             /\ UNCHANGED <<pc, evidence>>]_vars

\* resetInterruptedTasks() has returned 2: two tasks were reclaimed.
C6_Witness ==
    /\ pc["A"] = "ready"
    /\ ret.n >= 2
    /\ \A id \in DOMAIN data["A"].tasks : StatusOf(data["A"], id) # "in-progress"

(***************************************************************************)
(* Interrupted tasks.                                                      *)
(***************************************************************************)
DiskInProgress(id) ==
    /\ Parses(files[GraphPath].text)
    /\ id \in DOMAIN DiskDoc.tasks
    /\ StatusOf(DiskDoc, id) = "in-progress"

\* While a task is in-progress on disk no handle lists it as ready.
InterruptedNotReady ==
    \A id \in TaskIds : DiskInProgress(id) =>
        \A p \in Procs : Loaded(p) => id \notin ReadyIds(data[p])

\* load returns the document as it is on disk, and neither load nor the
\* end of a process writes the file.
LoadKeepsDocument ==
    \A p \in Procs :
        /\ Load(p) => files' = files /\ (Parses(files[GraphPath].text) => data'[p] = DiskDoc)
        /\ Exit(p) => files' = files

\* After resetInterruptedTasks() a task that was in-progress is ready
\* exactly when all its dependencies are terminal.
ReadyAfterReset ==
    \A p \in Procs : DoResetInterruptedTasks(p) =>
        \A id \in TaskIds : DiskInProgress(id) =>
            (id \in ReadyIds(data'[p]) <=> DepsSatisfied(data'[p], id))

\* The tasks whose status on disk stops being in-progress in this step.
Reclaimed == {id \in TaskIds : DiskInProgress(id) /\ ~DiskInProgress(id)'}

GraphFileComplete == files[GraphPath].exists /\ Parses(files[GraphPath].text)

\* C3: with one writer, at every step of save() and after a kill at any
\* step, the graph path holds a complete document: a step either leaves
\* the document there as it was or replaces it by the writer's whole new
\* document, and a load by a reader succeeds and returns that document.
C3_AtomicReplace ==
    /\ []GraphFileComplete
    /\ [][/\ \/ DiskDoc' = DiskDoc
             \/ \E p \in Procs : RenameTmp(p) /\ DiskDoc' = data[p]
          /\ \A p \in Procs : Load(p) => pc'[p] = "ready" /\ data'[p] = DiskDoc]_vars

\* The reader has loaded the old document while the writer is in the
\* middle of writing the new one to the temporary file.
C3_Witness ==
    /\ pc["A"] = "write"
    /\ wpos["A"] > 0
    /\ wpos["A"] < Len(SaveText(data["A"]))
    /\ tmp["A"] # GraphPath
    /\ ~Parses(files[tmp["A"]].text)
    /\ pc["B"] = "ready"
    /\ ret.st = "loaded"
    /\ data["B"] = DiskDoc
    /\ data["B"] # data["A"]

\* C8: a saved change is missing from the graph file only when two
\* invocations ran at the same time; while every load-mutate-save ends
\* before the next invocation starts the file holds every saved change.
C8_SerializedKeepsUpdates ==
    ~overlap => GraphFileComplete /\ DiskDoc = expected

\* load(A), load(B), save(A), save(B), each save under its own temporary
\* path and without an error: the file holds B's change and not A's.
C8_Witness ==
    /\ overlap
    /\ pc["A"] = "ready" /\ pc["B"] = "ready"
    /\ tmp["A"] # tmp["B"]
    /\ ret.err = ""
    /\ args["A"] = <<IdTable[1], "failed">>
    /\ args["B"] = <<IdTable[2], "failed">>
    /\ StatusOf(expected, IdTable[1]) = "failed"
    /\ StatusOf(expected, IdTable[2]) = "failed"
    /\ GraphFileComplete
    /\ StatusOf(DiskDoc, IdTable[2]) = "failed"
    /\ StatusOf(DiskDoc, IdTable[1]) # "failed"
    /\ data["B"] = DiskDoc

\* C9: two save() calls in progress never use the same temporary path, and
\* the file a save is still writing is never renamed over the target by
\* another save.
C9_UniqueTmpPath ==
    /\ \A p, q \in Procs : p # q /\ Saving(p) /\ Saving(q) => tmp[p] # tmp[q]
    /\ \A p \in Procs : pc[p] = "write" => fd[p] = tmp[p]

(***************************************************************************)
(* Properties of the recovery state.                                       *)
(***************************************************************************)
\* C10: deriveState returns complete for a complete or skipped task,
\* failed for a failed one; otherwise evaluating if the result file
\* exists, else scaffolded if the marker exists inside the worktree, else
\* worktree-created if the worktree exists and the status is in-progress,
\* else pending.  It fails with not-found for an id absent from the graph
\* and never returns scaffolding or executing.
C10_DerivedState ==
    [][\A p \in Procs, taskId \in DepIds : DoTaskState(p, taskId) =>
          IF taskId \notin DOMAIN data[p].tasks
          THEN ret'.err = "Task <id> not found" /\ ret'.st = ""
          ELSE /\ ret'.err = ""
               /\ ret'.st \in TaskState \ {"scaffolding", "executing"}
               /\ LET status == StatusOf(data[p], taskId)
                  IN ret'.st =
                       CASE status \in {"complete", "skipped"} -> "complete"
                         [] status = "failed" -> "failed"
                         [] status \in {"pending", "in-progress"} /\ taskId \in results
                              -> "evaluating"
                         [] status \in {"pending", "in-progress"} /\ taskId \notin results
                               /\ taskId \in markers /\ taskId \in worktrees
                              -> "scaffolded"
                         [] status = "in-progress" /\ taskId \notin results
                               /\ taskId \notin markers /\ taskId \in worktrees
                              -> "worktree-created"
                         [] OTHER -> "pending"]_vars

\* The command has answered evaluating for a pending task that has a
\* result file, a worktree and a marker.
C10_Witness ==
    /\ ret.st = "evaluating"
    /\ \E id \in DOMAIN data["A"].tasks :
          /\ StatusOf(data["A"], id) = "pending"
          /\ id \in results /\ id \in markers /\ id \in worktrees
          /\ \A other \in TaskIds \ {id} : other \notin results

\* The state derived for id from the document on disk and the artifacts
\* that exist.
DerivedNow(id) == deriveTaskState(id, DiskDoc, worktrees, markers, results).st

\* The order of the recovery states of an unfinished task.
StateRank(st) ==
    CASE st = "pending" -> 0
      [] st = "worktree-created" -> 1
      [] st = "scaffolded" -> 2
      [] st = "evaluating" -> 3
      [] OTHER -> 4

PersistedStatus(id, status) == id \in DOMAIN DiskDoc.tasks /\ StatusOf(DiskDoc, id) = status

\* C11: for a task whose status on disk is in-progress the derived state
\* is pending with no artifact, worktree-created with the worktree,
\* scaffolded with the marker too, evaluating with the result file, and no
\* step that only adds artifacts moves it backward in that order; once the
\* status on disk is complete or failed the derived state is complete or
\* failed whatever artifacts exist.
C11_ForwardOnly ==
    /\ [](\A id \in TaskIds :
            /\ PersistedStatus(id, "complete") => DerivedNow(id) = "complete"
            /\ PersistedStatus(id, "failed") => DerivedNow(id) = "failed"
            /\ PersistedStatus(id, "in-progress") =>
                  /\ id \notin worktrees /\ id \notin results => DerivedNow(id) = "pending"
                  /\ id \in worktrees /\ id \notin markers /\ id \notin results
                        => DerivedNow(id) = "worktree-created"
                  /\ id \in worktrees /\ id \in markers /\ id \notin results
                        => DerivedNow(id) = "scaffolded"
                  /\ id \in results => DerivedNow(id) = "evaluating")
    /\ [][\A id \in TaskIds :
            (/\ PersistedStatus(id, "in-progress")
             /\ PersistedStatus(id, "in-progress")'
             /\ worktrees \subseteq worktrees'
             /\ markers \subseteq markers'
             /\ results \subseteq results')
                => StateRank(DerivedNow(id)') >= StateRank(DerivedNow(id))]_vars

\* The command has answered evaluating for an in-progress task whose
\* worktree, marker and result file all exist.
C11_Witness ==
    /\ ret.st = "evaluating"
    /\ \E id \in TaskIds :
          /\ PersistedStatus(id, "in-progress")
          /\ pc["A"] = "ready" /\ StatusOf(data["A"], id) = "in-progress"
          /\ id \in worktrees /\ id \in markers /\ id \in results
          /\ \A other \in TaskIds \ {id} : other \notin results /\ other \notin worktrees

\* C12: the task-state command changes neither the document in memory
\* nor any file or artifact; its answer is computed from the status as
\* loaded and from what exists now, never from an earlier answer, and is
\* the same for every task and every set of artifacts with the same status
\* and the same existence of worktree, marker and result file; a load
\* after the writer was killed at any step returns the document on disk.
C12_DeriveReadsOnly ==
    [][\A p \in Procs :
          /\ Load(p) => pc'[p] = "ready" /\ data'[p] = DiskDoc
          /\ \A taskId \in DepIds : DoTaskState(p, taskId) =>
                LET d == deriveTaskState(taskId, data[p], worktrees, markers, results)
                IN /\ UNCHANGED <<files, pc, data, saveVars, now, evidence, history>>
                   /\ ret'.st = d.st /\ ret'.err = d.err
                   /\ taskId \in DOMAIN data[p].tasks =>
                         \A other \in DOMAIN data[p].tasks :
                         \A wts \in SUBSET {other}, mks \in SUBSET {other}, res \in SUBSET {other} :
                            (/\ StatusOf(data[p], other) = StatusOf(data[p], taskId)
                             /\ other \in wts <=> taskId \in worktrees
                             /\ other \in mks <=> taskId \in markers
                             /\ other \in res <=> taskId \in results)
                                => deriveTaskState(other, data[p], wts, mks, res) = d]_vars

\* The writer was killed in the middle of a save and left a partial
\* temporary file; the command, run after that, has answered for a task
\* that is in-progress on disk.
C12_Witness ==
    /\ pc["A"] = "none"
    /\ \E t \in 0..MaxClock :
          /\ files[TmpPath(GraphPath, t)].exists
          /\ ~Parses(files[TmpPath(GraphPath, t)].text)
    /\ pc["B"] = "ready"
    /\ ret.st = "worktree-created"
    /\ \E id \in worktrees : PersistedStatus(id, "in-progress") /\ id \notin results

(***************************************************************************)
(* Properties of mergeTask.                                                *)
(***************************************************************************)
\* The exec() calls of x that ran one of the commands cmds.
CallsOf(x, cmds) == {i \in DOMAIN x.calls : x.calls[i].cmd \in cmds}

\* C13: when the squash merge fails with a conflict, mergeTask returns
\* false without raising and leaves the branches at their commits and the
\* index and working tree clean.
C13_ConflictLeavesClean ==
    [][\A p \in Procs, taskId \in TaskIds, reached \in BOOLEAN :
          LET x == mergeTask(Repo, taskId, data[p], reached)
          IN (/\ DoMergeTask(p, taskId, reached)
              /\ \E i \in CallsOf(x, {"merge --squash"}) : x.calls[i].output = "CONFLICT")
                => /\ ret'.st = "false"
                   /\ ret'.err = ""
                   /\ git'.log = git.log
                   /\ git'.tree = "clean"
                   /\ git'.index = {}]_vars

\* C14: mergeTask returns true exactly when the squash merge succeeded and
\* the commit with the task's id and title was made on the integration
\* branch, whether or not the push succeeded; a failed push leaves the
\* commit; when it returns false the integration branch has no new commit.
C14_TrueIffCommitted ==
    [][\A p \in Procs, taskId \in TaskIds, reached \in BOOLEAN :
          DoMergeTask(p, taskId, reached) =>
             LET before == git.log[integrationBranch]
                 after == git'.log[integrationBranch]
             IN /\ ret'.st = "true" <=>
                      after = Append(before, Message(taskId, TitleOf(data[p], taskId)))
                /\ ret'.st = "false" => after = before
                /\ ret'.st \in {"true", "false"} /\ ret'.err = ""
                /\ ~reached => git'.pushed = git.pushed]_vars

\* C15: mergeTask runs the squash merge and the commit only while the
\* integration branch is checked out at projectRoot.
C15_MergesOnIntegration ==
    [][\A p \in Procs, taskId \in TaskIds, reached \in BOOLEAN :
          DoMergeTask(p, taskId, reached) =>
             LET x == mergeTask(Repo, taskId, data[p], reached)
             IN /\ \A i \in CallsOf(x, {"merge --squash", "commit"}) :
                      x.calls[i].on = integrationBranch
                /\ git'.log[OtherBranch] = git.log[OtherBranch]]_vars

(***************************************************************************)
(* Properties of createWorktree and removeWorktree.                        *)
(***************************************************************************)
\* The repository after the step.
RepoAfter == [git |-> git', dirs |-> worktrees', marks |-> markers']

\* The other tasks' worktrees, directories, markers and branches, and what
\* is checked out and committed at projectRoot, are as before the step.
OthersKept(id) ==
    /\ git'.reg \ {id} = git.reg \ {id}
    /\ worktrees' \ {id} = worktrees \ {id}
    /\ markers' \ {id} = markers \ {id}
    /\ \A other \in TaskIds \ {id} : git'.br[other] = git.br[other]
    /\ <<git'.head, git'.held, git'.tree, git'.index, git'.log, git'.pushed>>
          = <<git.head, git.held, git.tree, git.index, git.log, git.pushed>>

C17_AtMostTwoAttempts ==
    [][\A taskId \in TaskIds : DoCreateWorktree(taskId) =>
          LET x == createWorktree(Repo, taskId)
              adds == CallsOf(x, {"worktree add"})
              last == x.calls[Len(x.calls)]
          IN /\ Cardinality(adds) \in {1, 2}
             /\ x.calls[2].cmd = "worktree add"
             /\ IF x.calls[2].ok THEN Len(x.calls) = 2
                ELSE /\ Len(x.calls) = 4
                     /\ x.calls[3].cmd = "branch -D"
                     /\ x.calls[4].cmd = "worktree add"
             /\ last.cmd = "worktree add"
             /\ ~last.ok => ret'.st = "" /\ ret'.err = last.output /\ ret'.err # ""
             /\ last.ok => ret'.st = WorktreeDir(taskId) /\ ret'.err = ""
             /\ ret'.st # "" => taskId \in git'.reg /\ taskId \in worktrees']_vars

\* createWorktree has thrown after its second attempt: the path is taken
\* by a directory that is no worktree.
C17_Witness ==
    /\ ret = Ret(4, "path already exists", "")
    /\ \E id \in worktrees : id \notin git.reg

\* C18: createWorktree runs `branch -D` and a second attempt only when the
\* first attempt failed on the existing branch name, and a task branch
\* that was there before the call is deleted only then.
C18_DeletesOnlyOnNameClash ==
    [][\A taskId \in TaskIds : DoCreateWorktree(taskId) =>
          LET x == createWorktree(Repo, taskId)
          IN /\ CallsOf(x, {"branch -D"}) # {} => x.calls[2].output = "branch already exists"
             /\ (git.br[taskId] # "absent" /\ ~x.calls[2].ok
                    /\ x.calls[2].output # "branch already exists")
                   => git'.br[taskId] = git.br[taskId]]_vars

C20_OnlyAfterTerminal ==
    [][\A taskId \in TaskIds :
          (\/ DoRemoveWorktree(taskId)
           \/ \E p \in Procs, reached \in BOOLEAN : DoMergeTask(p, taskId, reached))
             => /\ ~PersistedStatus(taskId, "pending")
                /\ ~PersistedStatus(taskId, "in-progress")]_vars

(***************************************************************************)
(* Properties of the dependency resolver.                                  *)
(***************************************************************************)
NoRepeat(s) == \A i, j \in 1..Len(s) : i # j => s[i] # s[j]

FirstPos(s, x) == CHOOSE i \in 1..Len(s) : s[i] = x /\ \A j \in 1..(i - 1) : s[j] # x

\* r holds the elements of raw once each, in the order of their first
\* occurrences in raw.
KeepsFirsts(r, raw) ==
    /\ Range(r) = Range(raw)
    /\ NoRepeat(r)
    /\ \A i, j \in 1..Len(r) : i < j => FirstPos(raw, r[i]) < FirstPos(raw, r[j])

\* new is old with, in every dependencies list holding from, the first
\* entry from replaced in place by the sequence to and repeats dropped.
MovedAs(old, new, from, to) ==
    /\ new.project = old.project
    /\ DOMAIN new.tasks = DOMAIN old.tasks
    /\ \A id \in DOMAIN old.tasks :
          LET was == old.tasks[id]
              is == new.tasks[id]
              deps == was.dependencies
          IN /\ \A f \in DOMAIN was \ {"dependencies"} : is[f] = was[f]
             /\ from \notin Range(deps) => is = was
             /\ from \in Range(deps) =>
                   LET i == FirstPos(deps, from)
                   IN KeepsFirsts(is.dependencies,
                                  SubSeq(deps, 1, i - 1) \o to \o SubSeq(deps, i + 1, Len(deps)))
    /\ (\A id \in DOMAIN old.tasks : from \notin Range(old.tasks[id].dependencies))
          => new = old

\* C21: moveDeps(from, toIds) replaces, in every dependencies list that
\* holds from, the entry from by the whole sequence toIds at that position
\* and keeps the first occurrence of every id, in order; no other field
\* and no task that does not depend on from changes, so a document where
\* nothing depends on from is returned as it was; the command saves what
\* it computed.
C21_MoveDepsRewrites ==
    /\ [](\A p \in Procs : Loaded(p) =>
            \A from \in DepIds, to \in DepLists :
                MovedAs(data[p], moveDeps(data[p], from, to).doc, from, to))
    /\ [][\A p \in Procs, from \in DepIds, to \in DepLists :
            DoMoveDepsCommand(p, from, to) =>
                /\ MovedAs(data[p], data'[p], from, to)
                /\ JsonParse(files'[GraphPath].text) = data'[p]]_vars

\* move-deps has rewired two tasks, one of them to a list of two ids.
C21_Witness ==
    /\ Loaded("A")
    /\ ret.st = "Rewired"
    /\ ret.n = 2
    /\ \E id \in DOMAIN data["A"].tasks : Len(data["A"].tasks[id].dependencies) = 2

\* C22: after moveDeps(from, toIds) with from not among toIds no
\* dependencies list holds from any more (dependents(from) is empty) and
\* every task that depended on from depends on every id of toIds.
C22_FromIsGone ==
    [][\A p \in Procs, from \in DepIds, to \in DepLists :
          (DoMoveDepsCommand(p, from, to) /\ from \notin Range(to)) =>
              /\ dependents(data'[p], from) = <<>>
              /\ \A id \in Range(dependents(data[p], from)) :
                    Range(to) \subseteq Range(data'[p].tasks[id].dependencies)]_vars

\* C23: moveDeps(from, toIds) leaves the record of the task from itself
\* (title, status, dependencies, file, complexity, attempts) as it was, for
\* every document and every toIds.
C23_FromRecordKept ==
    [][\A p \in Procs, from \in TaskIds, to \in DepLists :
          (DoMoveDepsCommand(p, from, to) /\ from \in DOMAIN data[p].tasks) =>
              data'[p].tasks[from] = data[p].tasks[from]]_vars

\* C24: after any sequence of mutators every task's dependencies list is
\* duplicate-free, in memory and in the graph file.
C24_DuplicateFree ==
    /\ \A p \in Procs : Loaded(p) =>
          \A id \in DOMAIN data[p].tasks : NoRepeat(data[p].tasks[id].dependencies)
    /\ \A id \in DOMAIN DiskDoc.tasks : NoRepeat(DiskDoc.tasks[id].dependencies)

Ascending(s) == \A i, j \in 1..Len(s) : i < j => IdRank(s[i]) < IdRank(s[j])

\* The tasks of doc that list x among their dependencies.
ListedBy(doc, x) == {id \in DOMAIN doc.tasks : x \in DepsOf(doc, id)}

\* S holds the dependents of id and the dependents of each of its members.
ClosedDown(doc, id, S) ==
    /\ ListedBy(doc, id) \subseteq S
    /\ \A x \in S : ListedBy(doc, x) \subseteq S

\* S is the least set closed under dependents that holds dependents(id).
LeastDown(doc, id, S) ==
    /\ ClosedDown(doc, id, S)
    /\ \A T \in SUBSET DOMAIN doc.tasks : ClosedDown(doc, id, T) => S \subseteq T

\* The dependencies of x, none when x names no task.
Lists(doc, x) == IF x \in DOMAIN doc.tasks THEN DepsOf(doc, x) ELSE {}

ClosedUp(doc, id, S) ==
    /\ Lists(doc, id) \subseteq S
    /\ \A x \in S : Lists(doc, x) \subseteq S

\* S is the set of the ids reached from id along one or more dependencies
\* edges.
LeastUp(doc, id, S) ==
    /\ ClosedUp(doc, id, S)
    /\ \A T \in SUBSET DepIds : ClosedUp(doc, id, T) => S \subseteq T

\* C25: on every document, cyclic or with dangling ids, transitiveDownstream(id)
\* returns, ascending and without repeats, exactly the least set that holds
\* dependents(id) and the dependents of each of its members; the call
\* changes nothing.
C25_DownstreamClosure ==
    /\ [](\A p \in Procs : Loaded(p) =>
            \A id \in DepIds :
                LET r == transitiveDownstream(data[p], id)
                IN Ascending(r) /\ LeastDown(data[p], id, Range(r)))
    /\ [][\A p \in Procs, id \in DepIds :
            DoTransitiveDownstream(p, id) =>
                /\ \E S \in SUBSET DOMAIN data[p].tasks :
                      LeastDown(data[p], id, S) /\ ret'.n = Cardinality(S)
                /\ data' = data
                /\ files' = files]_vars

\* list --after has answered on a cycle: the two tasks depend on each
\* other and both are downstream of the one asked for.
C25_Witness ==
    /\ Loaded("A")
    /\ ret.st = "after"
    /\ ret.n = 2
    /\ DOMAIN data["A"].tasks = {IdTable[1], IdTable[2]}
    /\ IdTable[2] \in DepsOf(data["A"], IdTable[1])
    /\ IdTable[1] \in DepsOf(data["A"], IdTable[2])

\* C26: transitiveUpstream(id) returns, ascending and without repeats, the
\* ids reached from id along one or more dependencies edges, on cyclic
\* documents too, and mirrors transitiveDownstream: for tasks x and y, y is
\* upstream of x exactly when x is downstream of y.
C26_UpstreamMirrors ==
    /\ [](\A p \in Procs : Loaded(p) =>
            /\ \A id \in DepIds :
                  LET r == transitiveUpstream(data[p], id)
                  IN Ascending(r) /\ LeastUp(data[p], id, Range(r))
            /\ \A x, y \in DOMAIN data[p].tasks :
                  y \in Range(transitiveUpstream(data[p], x))
                      <=> x \in Range(transitiveDownstream(data[p], y)))
    /\ [][\A p \in Procs, id \in DepIds :
            DoTransitiveUpstream(p, id) =>
                /\ \E S \in SUBSET DepIds :
                      LeastUp(data[p], id, S) /\ ret'.n = Cardinality(S)
                /\ data' = data
                /\ files' = files]_vars

\* list --before has answered on a cycle with a dangling id: the task asked
\* for, the other task and the absent id are all upstream.
C26_Witness ==
    /\ Loaded("A")
    /\ ret.st = "before"
    /\ ret.n = 3
    /\ \E x, y \in DOMAIN data["A"].tasks :
          /\ x # y
          /\ y \in DepsOf(data["A"], x)
          /\ x \in DepsOf(data["A"], y)
          /\ AbsentId \in DepsOf(data["A"], x)

(***************************************************************************)
(* Properties of the generated ids.                                        *)
(***************************************************************************)
\* chars is T followed by one or more digits and nothing else.
ExactForm(chars) ==
    /\ Len(chars) >= 2
    /\ chars[1] = "T"
    /\ \A i \in 2..Len(chars) : IsDigit(chars[i])

\* The largest number among the ids of the exact form, 0 without any.
LargestExact(doc) ==
    LET nums == {DigitsValue(Tail(Spelling(id)), Len(Spelling(id)) - 1) :
                    id \in {x \in DOMAIN doc.tasks : ExactForm(Spelling(x))}} \cup {Num(0, 0)}
    IN CHOOSE m \in nums : \A n \in nums : ~Less(m, n)

\* C27: nextTaskId() is T followed by m+1 padded with zeros to three
\* digits, m the largest number among the ids of the exact form T<digits>
\* (0 without any); the other ids have no influence.
C27_NextAfterLargestExact ==
    \A p \in Procs : Loaded(p) =>
        nextTaskId(data[p]) =
            Unspell(<<"T">> \o PadStart(Decimal(Succ(LargestExact(data[p]))), 3, "0"))

(***************************************************************************)
(* Properties of the mutators of one task.                                 *)
(***************************************************************************)
\* C28: over any sequence of operations a task's attempts never decreases,
\* on the handle and in the graph file; incrementAttempts(id) raises it by
\* exactly 1, changes nothing else and saves.
C28_AttemptsNeverDecrease ==
    [][/\ \A p \in Procs :
            (pc[p] = "ready" /\ pc'[p] = "ready") =>
                \A id \in DOMAIN data[p].tasks \cap DOMAIN data'[p].tasks :
                    data'[p].tasks[id].attempts >= data[p].tasks[id].attempts
       /\ \A id \in DOMAIN DiskDoc.tasks \cap DOMAIN DiskDoc'.tasks :
            DiskDoc'.tasks[id].attempts >= DiskDoc.tasks[id].attempts
       /\ \A p \in Procs, id \in TaskIds :
            (DoIncrementAttempts(p, id) /\ id \in DOMAIN data[p].tasks) =>
                /\ data'[p] = [data[p] EXCEPT !.tasks[id].attempts = @ + 1]
                /\ DiskDoc' = data'[p]]_vars

\* C29: amendTask(id, partial) on an existing task sets exactly the fields
\* partial has to the values given, keeps every other field of the task
\* and every other task, and saves the result.
C29_AmendSetsOnlyGiven ==
    [][\A p \in Procs, id \in TaskIds, updates \in AmendInputs :
          (DoAmendTask(p, id, updates) /\ id \in DOMAIN data[p].tasks) =>
              /\ data'[p].project = data[p].project
              /\ DOMAIN data'[p].tasks = DOMAIN data[p].tasks
              /\ \A f \in DOMAIN data[p].tasks[id] :
                    data'[p].tasks[id][f] =
                        IF f \in DOMAIN updates THEN updates[f] ELSE data[p].tasks[id][f]
              /\ \A other \in DOMAIN data[p].tasks \ {id} :
                    data'[p].tasks[other] = data[p].tasks[other]
              /\ DiskDoc' = data'[p]
              /\ ret'.err = ""]_vars

\* A task that has been attempted and whose status and dependencies are
\* the ones of an amendment, next to an untouched task, saved.
C29_Witness ==
    /\ Loaded("A")
    /\ DOMAIN data["A"].tasks = {IdTable[1], IdTable[2]}
    /\ data["A"].tasks[IdTable[2]].status = "failed"
    /\ data["A"].tasks[IdTable[2]].dependencies = <<>>
    /\ data["A"].tasks[IdTable[2]].attempts = 1
    /\ data["A"].tasks[IdTable[1]] = SlimTask("t", "complete", <<>>, IdTable[1], "medium", 0)
    /\ DiskDoc = data["A"]

\* C30: amendTask(id, ...) and incrementAttempts(id) with an id that names
\* no task fail with a not-found error and nothing else: the document of
\* the handle and the graph file are as before, the handle stays usable,
\* and the call made right after such a failure does what it always does.
C30_NotFoundChangesNothing ==
    [][\A p \in Procs, id \in DepIds :
          /\ id \notin DOMAIN data[p].tasks =>
                /\ \A updates \in AmendInputs :
                      DoAmendTask(p, id, updates) =>
                          /\ ret'.err = "Task not found"
                          /\ data' = data /\ files' = files /\ pc' = pc
                /\ DoIncrementAttempts(p, id) =>
                      /\ ret'.err = "Task not found"
                      /\ data' = data /\ files' = files /\ pc' = pc
          /\ (ret.err = "Task not found" /\ id \in DOMAIN data[p].tasks) =>
                /\ DoIncrementAttempts(p, id) =>
                      /\ data'[p] = [data[p] EXCEPT !.tasks[id].attempts = @ + 1]
                      /\ DiskDoc' = data'[p]
                      /\ ret'.err = ""
                /\ \A status \in TaskStatus :
                      DoSetStatus(p, id, status) =>
                          /\ data'[p] = [data[p] EXCEPT !.tasks[id].status = status]
                          /\ DiskDoc' = data'[p]
                          /\ ret'.err = ""]_vars

\* A call has just failed with not-found on a handle whose document holds
\* an attempted task; the graph file is the document.
C30_Witness ==
    /\ pc["A"] = "ready"
    /\ ret.err = "Task not found"
    /\ \E id \in DOMAIN data["A"].tasks : data["A"].tasks[id].attempts = 1
    /\ DiskDoc = data["A"]

(***************************************************************************)
(* Properties of the commands.                                             *)
(***************************************************************************)
\* C31: set-status with an id that names no task of the document fails: it
\* ends with a non-zero code and a message, and the graph file is as it
\* was.
C31_AbsentIdReported ==
    [][\A p \in Procs, taskId \in DepIds, status \in VALID_STATUSES :
          (/\ DoSetStatusCommand(p, taskId, status)
           /\ CanLoad(files, GraphPath)
           /\ taskId \notin DOMAIN load(files, GraphPath).tasks) =>
              /\ ret'.n # 0
              /\ ret'.err # ""
              /\ files' = files]_vars

\* C32: set-status with a status outside pending, in-progress, complete,
\* failed and skipped ends with a non-zero code before the graph is loaded
\* or changed: every file, and so every task's status, is as it was.
C32_InvalidStatusRejected ==
    /\ [](\A taskId \in DepIds, status \in StatusArgs \ TaskStatus :
            LET x == setStatusCommand(files, taskId, status, now)
            IN x.code # 0 /\ x.fs = files)
    /\ [][\A p \in Procs, taskId \in DepIds, status \in StatusArgs \ TaskStatus :
            DoSetStatusCommand(p, taskId, status) =>
                /\ ret'.n = 1
                /\ ret'.err = "Invalid status"
                /\ files' = files
                /\ data' = data]_vars

\* set-status has just rejected a status, with a graph of two tasks on
\* disk, one of them in progress.
C32_Witness ==
    /\ ret.n = 1
    /\ ret.err = "Invalid status"
    /\ CanLoad(files, GraphPath)
    /\ DOMAIN DiskDoc.tasks = {IdTable[1], IdTable[2]}
    /\ DiskDoc.tasks[IdTable[2]].status = "in-progress"

\* The structure of a document: every task record has a status and a
\* complexity of the recognized sets, a list of dependencies and a count of
\* attempts.
WellFormed(doc) ==
    \A id \in DOMAIN doc.tasks :
        /\ doc.tasks[id].status \in TaskStatus
        /\ doc.tasks[id].complexity \in Complexity
        /\ doc.tasks[id].attempts \in Nat

\* C33: load fails whenever the file is not valid JSON or has not the
\* structure of a document, so that a command gets a handle, and runs its
\* accessors, only on structurally valid documents.
C33_LoadsOnlyValid ==
    [][\A p \in Procs :
          DoStatusCommand(p) =>
              (ret'.n = 0 <=> (/\ files[GraphPath].exists
                               /\ Parses(files[GraphPath].text)
                               /\ WellFormed(JsonParse(files[GraphPath].text))))]_vars

\* C36: the store is the only writer of the graph file: the file is whole
\* at every moment, since it only ever changes by the rename that ends a
\* save(), and what is persisted changes only through a mutator of the
\* store.
C36_OnlyStoreWrites ==
    /\ [](files[GraphPath].exists /\ Parses(files[GraphPath].text))
    /\ [][files'[GraphPath] # files[GraphPath] =>
            \E p \in Procs, taskId \in DepIds, status \in VALID_STATUSES :
                DoSetStatusCommand(p, taskId, status)]_vars

C35_SortedWithTier ==
    /\ [](CanLoad(files, GraphPath) =>
            LET doc == load(files, GraphPath)
                r == readyTasks(doc)
            IN /\ \A i, j \in 1..Len(r) : i < j => IdRank(r[i].id) < IdRank(r[j].id)
               /\ \A i \in 1..Len(r) :
                     /\ r[i].complexity = doc.tasks[r[i].id].complexity
                     /\ r[i].complexity = "low" => r[i].model = "claude-sonnet-4-6"
                     /\ r[i].complexity \in {"medium", "high"} => r[i].model = "claude-opus-4-6")
    /\ [][\A p \in Procs :
            DoReadyCommand(p) =>
                /\ files' = files
                /\ ret'.n = 0 <=> CanLoad(files, GraphPath)]_vars

\* ready has answered and the graph holds two ready tasks, a high one and
\* a low one.
C35_Witness ==
    /\ ret = Ret(0, "", "ready")
    /\ pc["A"] = "none"
    /\ CanLoad(files, GraphPath)
    /\ Len(readyTasks(DiskDoc)) = 2
    /\ readyTasks(DiskDoc)[1].complexity = "high"
    /\ readyTasks(DiskDoc)[1].model = "claude-opus-4-6"
    /\ readyTasks(DiskDoc)[2].model = "claude-sonnet-4-6"

\* The tasks of doc that are not complete, failed or skipped.
Unfinished(doc) == {id \in DOMAIN doc.tasks : StatusOf(doc, id) \notin Done}

\* C37: remainingCount() is the number of tasks that are not complete,
\* failed or skipped; every task readyTasks() lists is among them, and a
\* task is among them exactly when its derived state is neither complete
\* nor failed.
C37_RemainingCountsUnfinished ==
    /\ [](\A p \in Procs : Loaded(p) =>
            /\ remainingCount(data[p]) = Cardinality(Unfinished(data[p]))
            /\ ReadyIds(data[p]) \subseteq Unfinished(data[p])
            /\ \A id \in DOMAIN data[p].tasks :
                  id \in Unfinished(data[p]) <=>
                      deriveTaskState(id, data[p], worktrees, markers, results).st
                          \notin {"complete", "failed"})
    /\ [][\A p \in Procs :
            DoRemainingCount(p) =>
                /\ ret'.n = Cardinality(Unfinished(data[p]))
                /\ data' = data
                /\ files' = files]_vars

\* The count has been answered as 1 on a graph with a skipped task and a
\* pending one whose result file exists.
C37_Witness ==
    /\ Loaded("A")
    /\ ret = Ret(1, "", "remaining")
    /\ \E id \in DOMAIN data["A"].tasks : StatusOf(data["A"], id) = "skipped"
    /\ \E id \in DOMAIN data["A"].tasks :
          /\ StatusOf(data["A"], id) = "pending"
          /\ id \in results

\* C38: the loop script starts at most MAX_SESSIONS sessions, one at a time,
\* and once over it stays over; after a session that left the compaction
\* marker it goes to the next iteration; after one that did not, it exits 0
\* with "All tasks complete" exactly when $REMAINING is 0, which happens only
\* when the graph file loads and remainingCount() of it is 0, and a graph
\* with unfinished tasks or a query that failed sends it to the next
\* iteration; an iteration past MAX_SESSIONS ends the script.
C38_LoopRestartsUntilDone ==
    /\ [](loop.SESSION_COUNT <= MAX_SESSIONS)
    /\ [][/\ loop'.SESSION_COUNT # loop.SESSION_COUNT =>
                /\ loop'.SESSION_COUNT = loop.SESSION_COUNT + 1
                /\ loop.at \in {"start", "next"}
                /\ loop'.at = "session"
          /\ loop.at = "done" => loop' = loop
          /\ (loop.at = "next" /\ loop' # loop) =>
                IF loop.SESSION_COUNT < MAX_SESSIONS THEN loop'.at = "session"
                ELSE loop'.at = "done" /\ loop'.said = "Max sessions reached"
          /\ (loop.at = "ended" /\ loop' # loop) =>
                IF loop.compacted THEN loop'.at = "next"
                ELSE /\ loop'.at \in {"next", "done"}
                     /\ loop'.at = "done" <=> loop'.REMAINING = 0
                     /\ loop'.at = "done" =>
                           /\ loop'.code = 0
                           /\ loop'.said = "All tasks complete"
                           /\ CanLoad(files, GraphPath)
                           /\ remainingCount(load(files, GraphPath)) = 0
                     /\ (CanLoad(files, GraphPath)
                           /\ remainingCount(load(files, GraphPath)) > 0) =>
                           loop'.at = "next"
                     /\ ~CanLoad(files, GraphPath) => loop'.at = "next"]_vars

\* The second session ended with nothing remaining and the script exited 0.
C38_Witness ==
    /\ loop.at = "done"
    /\ loop.said = "All tasks complete"
    /\ loop.code = 0
    /\ loop.SESSION_COUNT = 2
    /\ CanLoad(files, GraphPath)
    /\ load(files, GraphPath).tasks # EmptyTasks

\* No task of doc reaches itself along dependencies edges.
Acyclic(doc) ==
    \A id \in DOMAIN doc.tasks : \E S \in SUBSET DepIds : ClosedUp(doc, id, S) /\ id \notin S

\* Acyclic, every dependency names a task, and nothing is in progress.
Schedulable(doc) ==
    /\ Acyclic(doc)
    /\ \A id \in DOMAIN doc.tasks :
          /\ DepsOf(doc, id) \subseteq DOMAIN doc.tasks
          /\ StatusOf(doc, id) # "in-progress"

\* C39: a graph that is acyclic, whose dependencies all name tasks, with no
\* task in progress and some task pending has a ready task; a conductor step
\* (a ready task set to a terminal status) keeps the graph so and lowers
\* remainingCount() by one; and when the conductor keeps taking steps while
\* there is a ready task, such a graph leads to remainingCount() = 0.
C39_ReadyUntilDone ==
    /\ []((/\ Schedulable(DiskDoc)
           /\ \E id \in DOMAIN DiskDoc.tasks : StatusOf(DiskDoc, id) = "pending")
          => readyTasks(DiskDoc) # <<>>)
    /\ [][(loop.at = "session" /\ Schedulable(DiskDoc) /\ files' # files) =>
            /\ Schedulable(load(files', GraphPath))
            /\ remainingCount(load(files', GraphPath)) = remainingCount(DiskDoc) - 1]_vars
    /\ (loop.at = "session" /\ Schedulable(DiskDoc)) ~> (remainingCount(DiskDoc) = 0)

\* The conductor completed the last task, one that depends on a failed one.
C39_Witness ==
    /\ loop.at = "session"
    /\ Schedulable(DiskDoc)
    /\ remainingCount(DiskDoc) = 0
    /\ ret = Ret(0, "", "complete")
    /\ \E id \in DOMAIN DiskDoc.tasks :
          /\ StatusOf(DiskDoc, id) = "complete"
          /\ \E dep \in DepsOf(DiskDoc, id) : StatusOf(DiskDoc, dep) = "failed"

\* C40: the id nextTaskId() returns is never a key of the document it is
\* called on.
C40_GeneratedIdIsFresh ==
    \A p \in Procs : Loaded(p) => nextTaskId(data[p]) \notin DOMAIN data[p].tasks

TypeOK ==
    /\ \A p \in Procs : pc[p] \in {"none", "ready", "open", "write"}
    /\ now \in 0..MaxClock
====
